---- MODULE Spec2Model ----
(***************************************************************************)
(* Pose projection pipeline of pedestrians-video-2-carla.                  *)
(*                                                                         *)
(* ProjectionModule (modules/layers/projection.py) is modelled handler by  *)
(* handler: construction, on_batch_start and project_pose.  A handler is   *)
(* one action; what it returns (or raises) is held in `ret` until the      *)
(* caller takes it (Return).  Rotations are exact 3x3 integer matrices     *)
(* (quarter turns about the axes), locations exact integer vectors, so     *)
(* every product and sum of the code is computed, with no tolerance.       *)
(* Tensors keep the layout of the code: data[n][i][b] is clip n, frame i,  *)
(* bone b, all counted from 1 (the code counts from 0).                    *)
(***************************************************************************)
EXTENDS Integers, Sequences, FiniteSets, TLC

VARIABLES
    movements_output_type,   \* ProjectionModule.movements_output_type
    trajectory_output_type,  \* ProjectionModule.trajectory_output_type
    calculate_abs,           \* ProjectionModule.__calculate_abs (bound method)
    calculate_world,         \* ProjectionModule.__calculate_world (bound method)
    pedestrians,             \* ProjectionModule.__pedestrians (None or a list)
    pose_projection,         \* ProjectionModule.__pose_projection
    world_locations,         \* ProjectionModule.__world_locations
    world_rotations,         \* ProjectionModule.__world_rotations
    ret,                     \* what the handler in flight returned or raised
    datasets,                \* MixedDataset: the metadata keys of each source dataset
    meta_template,           \* MixedDataset._meta_template (None or the common keys)
    item                     \* the metadata of the item a dataset handed on

vars == <<movements_output_type, trajectory_output_type, calculate_abs,
          calculate_world, pedestrians, pose_projection, world_locations,
          world_rotations, ret, datasets, meta_template, item>>

dataVars == <<datasets, meta_template, item>>

moduleVars == <<movements_output_type, trajectory_output_type, calculate_abs,
                calculate_world, pedestrians, pose_projection,
                world_locations, world_rotations>>

-----------------------------------------------------------------------------
(* Bounds of the model. *)

MaxBatch == 2
MaxClip == 3
NumBones == 3

Bones == 1..NumBones

-----------------------------------------------------------------------------
(* Vectors and rotation matrices. *)

Zero3 == <<0, 0, 0>>
Ex == <<1, 0, 0>>
Ey == <<0, 1, 0>>
I3 == <<<<1, 0, 0>>, <<0, 1, 0>>, <<0, 0, 1>>>>
\* a quarter turn about z (a yaw of 90 degrees) and one about x
Rz == <<<<0, -1, 0>>, <<1, 0, 0>>, <<0, 0, 1>>>>
Rx == <<<<1, 0, 0>>, <<0, 0, -1>>, <<0, 1, 0>>>>

Dot(a, b, i, j) == a[i][1] * b[1][j] + a[i][2] * b[2][j] + a[i][3] * b[3][j]

\* torch.bmm on one pair of 3x3 matrices
bmm(a, b) ==
    <<<<Dot(a, b, 1, 1), Dot(a, b, 1, 2), Dot(a, b, 1, 3)>>,
      <<Dot(a, b, 2, 1), Dot(a, b, 2, 2), Dot(a, b, 2, 3)>>,
      <<Dot(a, b, 3, 1), Dot(a, b, 3, 2), Dot(a, b, 3, 3)>>>>

Row(a, v, i) == a[i][1] * v[1] + a[i][2] * v[2] + a[i][3] * v[3]

MatVec(a, v) == <<Row(a, v, 1), Row(a, v, 2), Row(a, v, 3)>>

VecAdd(u, v) == <<u[1] + v[1], u[2] + v[2], u[3] + v[3]>>

VecScale(k, v) == <<k * v[1], k * v[2], k * v[3]>>

\* None and a present value, for optional arguments and results
None == [none |-> TRUE, data |-> <<>>]
Some(d) == [none |-> FALSE, data |-> d]

-----------------------------------------------------------------------------
(* Enumerations of modules/base/output_types.py, as used by projection.py. *)

MovementsModelOutputType ==
    {"pose_changes", "absolute_loc", "absolute_loc_rot", "relative_rot"}

TrajectoryModelOutputType == {"changes", "loc_rot"}

Ages == {"adult", "child"}
Genders == {"female", "male"}

-----------------------------------------------------------------------------
(* Skeleton and reference poses.  The skeleton is a chain: bone 1 is the   *)
(* root, bone b > 1 hangs on bone b - 1.                                    *)

Parent(b) == b - 1

\* reference (default) relative pose of the pedestrian of an age and gender:
\* bone offsets scale with the age, the rest rotations differ with the gender
ReferenceScale(age) == IF age = "adult" THEN 2 ELSE 1

ReferenceLoc(age, gender) ==
    [b \in Bones |->
        IF b = 1 THEN Zero3
        ELSE VecScale(ReferenceScale(age), IF b % 2 = 0 THEN Ey ELSE Ex)]

ReferenceRot(age, gender) ==
    [b \in Bones |->
        IF b = 1 THEN I3
        ELSE IF b % 2 = 0 THEN (IF gender = "female" THEN Rx ELSE Rz)
        ELSE (IF gender = "female" THEN Rz ELSE Rx)]

\* ControlledPedestrian(age=..., gender=..., reference_pose=...): the object,
\* or the error of a category that has no reference skeleton
ControlledPedestrian(age, gender, reference_pose) ==
    IF age \in Ages /\ gender \in Genders
    THEN [error |-> "", age |-> age, gender |-> gender,
          reference_pose |-> reference_pose]
    ELSE [error |-> "MissingMetadataError", age |-> age, gender |-> gender,
          reference_pose |-> reference_pose]

\* p.current_pose.tensors: (relative locations, relative rotations)
current_pose_tensors(p) ==
    [loc |-> ReferenceLoc(p.age, p.gender), rot |-> ReferenceRot(p.age, p.gender)]

-----------------------------------------------------------------------------
(* P3dPose: composition along the parent chain, batched over the clips.    *)

\* the product taken in the other order: own rotation times the parent's
RECURSIVE AbsoluteRotOwnFirst(_, _)
AbsoluteRotOwnFirst(rot, b) ==
    IF Parent(b) = 0 THEN rot[b]
    ELSE bmm(rot[b], AbsoluteRotOwnFirst(rot, Parent(b)))

RECURSIVE AbsoluteRot(_, _)
AbsoluteRot(rot, b) ==
    IF Parent(b) = 0 THEN rot[b]
    ELSE bmm(AbsoluteRot(rot, Parent(b)), rot[b])

RECURSIVE AbsoluteLoc(_, _, _)
AbsoluteLoc(loc, rot, b) ==
    IF Parent(b) = 0 THEN loc[b]
    ELSE VecAdd(AbsoluteLoc(loc, rot, Parent(b)),
                MatVec(AbsoluteRot(rot, Parent(b)), loc[b]))

\* P3dPose.relative_to_absolute(loc, rot), loc[n][b] and rot[n][b]
relative_to_absolute(loc, rot) ==
    [loc |-> [n \in DOMAIN loc |-> [b \in Bones |-> AbsoluteLoc(loc[n], rot[n], b)]],
     rot |-> [n \in DOMAIN loc |-> [b \in Bones |-> AbsoluteRot(rot[n], b)]]]

\* P3dPose.forward(changes, prev_relative_loc, prev_relative_rot)
pose_forward(changes, prev_relative_loc, prev_relative_rot) ==
    LET new_rot == [n \in DOMAIN changes |->
                       [b \in Bones |-> bmm(prev_relative_rot[n][b], changes[n][b])]]
        abs == relative_to_absolute(prev_relative_loc, new_rot)
    IN  [loc |-> abs.loc, rot |-> abs.rot, new_rot |-> new_rot]

-----------------------------------------------------------------------------
(* Tensors handed to project_pose.  A tensor carries its rank (ndim), its  *)
(* first two dimensions N and L and, when its rank is the one its reader   *)
(* expects, its data; a tuple carries two tensors.                         *)

Tensor(ndim, N, L, data) ==
    [isTuple |-> FALSE, ndim |-> ndim, N |-> N, L |-> L, data |-> data,
     second |-> <<>>]

TupleOf(t1, t2) ==
    [isTuple |-> TRUE, ndim |-> 0, N |-> t1.N, L |-> t1.L, data |-> t1,
     second |-> t2]

\* t[:, i]
Slice(data, N, i) == [n \in 1..N |-> data[n][i]]

\* the tensor (N, L, ...) whose frame i is frames[i][n]
Stack(frames, N, L) == [n \in 1..N |-> [i \in 1..L |-> frames[i][n]]]

-----------------------------------------------------------------------------
(* ProjectionModule.__init__: the strategies bound to the output types.    *)

\* the inner test of lines 42-45 lost: both absolute types get one path
SelectCalculateAbsOneAbsolute(mt) ==
    CASE mt = "pose_changes" -> "_calculate_abs_from_pose_changes"
      [] mt = "absolute_loc" -> "_calculate_abs_from_abs_loc_output"
      [] mt = "absolute_loc_rot" -> "_calculate_abs_from_abs_loc_output"
      [] mt = "relative_rot" -> "_calculate_abs_from_relative_rot"

SelectCalculateAbs(mt) ==
    CASE mt = "pose_changes" -> "_calculate_abs_from_pose_changes"
      [] mt = "absolute_loc" -> "_calculate_abs_from_abs_loc_output"
      [] mt = "absolute_loc_rot" -> "_calculate_abs_from_abs_loc_rot_output"
      [] mt = "relative_rot" -> "_calculate_abs_from_relative_rot"

SelectCalculateWorld(tt) ==
    CASE tt = "changes" -> "_calculate_world_from_changes"
      [] tt = "loc_rot" -> "_calculate_world_from_loc_rot"

-----------------------------------------------------------------------------
(* ProjectionModule.get_reference_tensors: the reference relative          *)
(* locations and rotations of the batch's pedestrians, stacked.            *)

\* the rotations of the reference poses dropped for identities
get_reference_tensors_no_rot ==
    LET peds == pedestrians.data
    IN  [loc |-> [n \in DOMAIN peds |-> current_pose_tensors(peds[n]).loc],
         rot |-> [n \in DOMAIN peds |-> [b \in Bones |-> I3]]]

\* the reference pose of the first pedestrian taken for every clip
get_reference_tensors_of_first ==
    LET peds == pedestrians.data
    IN  [loc |-> [n \in DOMAIN peds |-> current_pose_tensors(peds[1]).loc],
         rot |-> [n \in DOMAIN peds |-> current_pose_tensors(peds[1]).rot]]

get_reference_tensors ==
    LET peds == pedestrians.data
    IN  [loc |-> [n \in DOMAIN peds |-> current_pose_tensors(peds[n]).loc],
         rot |-> [n \in DOMAIN peds |-> current_pose_tensors(peds[n]).rot]]

\* what a composition path returns: an error, or absolute_loc (N, L, B, 3)
\* and absolute_rot, and the calls of the pose it made on the way
AbsError(e, calls) ==
    [error |-> e, calls |-> calls, N |-> 0, L |-> 0, loc |-> <<>>, rot |-> None]

AbsResult(N, L, loc, rot, calls) ==
    [error |-> "", calls |-> calls, N |-> N, L |-> L, loc |-> loc, rot |-> rot]

PoseCall(name, i, loc, rot, new_rot, error) ==
    [name |-> name, frame |-> i, prev_relative_loc |-> loc,
     prev_relative_rot |-> rot, new_rot |-> new_rot, error |-> error]

\* the loop variable never rebound: every call gets the reference rotation
KeepPrevRelativeRot(returned, prev_relative_rot) == prev_relative_rot

\* line 180: the rotation handed to the next call of pose.forward
NextPrevRelativeRot(returned, prev_relative_rot) == returned.new_rot

\* lines 179-181: the loop over the frames of _calculate_abs_from_pose_changes
RECURSIVE PoseChangesLoop(_, _, _, _, _)
PoseChangesLoop(inp, i, prev_relative_loc, prev_relative_rot, acc) ==
    IF i > inp.L THEN acc
    ELSE LET r == pose_forward(Slice(inp.data, inp.N, i),
                               prev_relative_loc, prev_relative_rot)
         IN  PoseChangesLoop(inp, i + 1, prev_relative_loc,
                 NextPrevRelativeRot(r, prev_relative_rot),
                 [frames |-> Append(acc.frames, r),
                  calls |-> Append(acc.calls,
                      PoseCall("forward", i, prev_relative_loc,
                               prev_relative_rot, r.new_rot, ""))])

_calculate_abs_from_pose_changes(inp) ==
    IF inp.isTuple THEN AbsError("AttributeError", <<>>)
    ELSE IF inp.ndim < 3 THEN AbsError("ValueError", <<>>)
    ELSE IF pedestrians.none THEN AbsError("TypeError", <<>>)
    ELSE LET ref == get_reference_tensors
         IN  IF inp.ndim # 5
             THEN IF inp.L = 0
                  THEN AbsResult(inp.N, 0, [n \in 1..inp.N |-> <<>>],
                                 Some([n \in 1..inp.N |-> <<>>]), <<>>)
                  ELSE AbsError("ShapeError",
                           <<PoseCall("forward", 1, ref.loc, ref.rot, <<>>,
                                      "ShapeError")>>)
             ELSE LET done == PoseChangesLoop(inp, 1, ref.loc, ref.rot,
                                  [frames |-> <<>>, calls |-> <<>>])
                  IN  AbsResult(inp.N, inp.L,
                          Stack([i \in 1..inp.L |-> done.frames[i].loc], inp.N, inp.L),
                          Some(Stack([i \in 1..inp.L |-> done.frames[i].rot], inp.N, inp.L)),
                          done.calls)

\* lines 146-148: the reference locations repeated to the batch size
RepeatToBatch(loc, batch_size) ==
    LET P == Len(loc)
    IN  [n \in 1..((batch_size \div P) * P) |-> loc[((n - 1) % P) + 1]]

\* lines 157-159: the loop over the frames of _calculate_abs_from_relative_rot
RECURSIVE RelativeRotLoop(_, _, _, _)
RelativeRotLoop(inp, i, prev_relative_loc, acc) ==
    IF i > inp.L THEN acc
    ELSE LET r == relative_to_absolute(prev_relative_loc, Slice(inp.data, inp.N, i))
         IN  RelativeRotLoop(inp, i + 1, prev_relative_loc,
                 [frames |-> Append(acc.frames, r),
                  calls |-> Append(acc.calls,
                      PoseCall("relative_to_absolute", i, prev_relative_loc,
                               Slice(inp.data, inp.N, i), <<>>, ""))])

_calculate_abs_from_relative_rot(inp) ==
    IF inp.isTuple THEN AbsError("AttributeError", <<>>)
    ELSE IF inp.ndim < 3 THEN AbsError("ValueError", <<>>)
    ELSE IF pedestrians.none THEN AbsError("TypeError", <<>>)
    ELSE LET ref == get_reference_tensors
             prev_relative_loc == RepeatToBatch(ref.loc, inp.N)
         IN  IF inp.ndim # 5
             THEN IF inp.L = 0
                  THEN AbsResult(inp.N, 0, [n \in 1..inp.N |-> <<>>],
                                 Some([n \in 1..inp.N |-> <<>>]), <<>>)
                  ELSE AbsError("ShapeError",
                           <<PoseCall("relative_to_absolute", 1, prev_relative_loc,
                                      <<>>, <<>>, "ShapeError")>>)
             ELSE LET done == RelativeRotLoop(inp, 1, prev_relative_loc,
                                  [frames |-> <<>>, calls |-> <<>>])
                  IN  AbsResult(inp.N, inp.L,
                          Stack([i \in 1..inp.L |-> done.frames[i].loc], inp.N, inp.L),
                          Some(Stack([i \in 1..inp.L |-> done.frames[i].rot], inp.N, inp.L)),
                          done.calls)

\* ReferenceSkeletonsDenormalize.from_abs(locations, {'age', 'gender'}): the
\* locations brought to the scale of each clip's reference skeleton
denormalize_from_abs(t, ages, genders) ==
    [n \in 1..t.N |-> [i \in 1..t.L |-> [b \in Bones |->
        VecScale(ReferenceScale(ages[n]), t.data[n][i][b])]]]

_calculate_abs_from_abs_loc_output(inp) ==
    IF pedestrians.none THEN AbsError("TypeError", <<>>)
    ELSE IF inp.isTuple \/ inp.ndim # 4 THEN AbsError("ShapeError", <<>>)
    ELSE LET peds == pedestrians.data
         IN  AbsResult(inp.N, inp.L,
                 denormalize_from_abs(inp, [n \in DOMAIN peds |-> peds[n].age],
                                      [n \in DOMAIN peds |-> peds[n].gender]),
                 None, <<>>)

_calculate_abs_from_abs_loc_rot_output(inp) ==
    IF ~inp.isTuple THEN AbsError("ShapeError", <<>>)
    ELSE LET first == _calculate_abs_from_abs_loc_output(inp.data)
         IN  IF first.error # "" THEN first
             ELSE AbsResult(first.N, first.L, first.loc,
                            Some(inp.second.data), <<>>)

\* self.__calculate_abs(pose_inputs_batch): the bound strategy is called
CallCalculateAbs(bound, inp) ==
    CASE bound = "_calculate_abs_from_pose_changes" ->
            _calculate_abs_from_pose_changes(inp)
      [] bound = "_calculate_abs_from_abs_loc_output" ->
            _calculate_abs_from_abs_loc_output(inp)
      [] bound = "_calculate_abs_from_abs_loc_rot_output" ->
            _calculate_abs_from_abs_loc_rot_output(inp)
      [] bound = "_calculate_abs_from_relative_rot" ->
            _calculate_abs_from_relative_rot(inp)

-----------------------------------------------------------------------------
(* World transform.                                                        *)

\* what a world path returns: world_loc (N, L, 3) and world_rot (N, L, 3, 3)
WorldResult(loc, rot) == [loc |-> loc, rot |-> rot]

\* one clip of calculate_world_from_changes: frame by frame, the rotation
\* change multiplied onto, the location change added to, the previous frame
RECURSIVE AccumulateClip(_, _, _, _, _, _)
AccumulateClip(loc_changes, rot_changes, i, prev_loc, prev_rot, acc) ==
    IF i > Len(rot_changes) THEN acc
    ELSE LET rot == bmm(prev_rot, rot_changes[i])
             loc == VecAdd(prev_loc, loc_changes[i])
         IN  AccumulateClip(loc_changes, rot_changes, i + 1, loc, rot,
                 [loc |-> Append(acc.loc, loc), rot |-> Append(acc.rot, rot)])

\* walker_control/torch/world.py: calculate_world_from_changes(shape, device,
\* world_loc_change_batch, world_rot_change_batch, initial_world_loc,
\* initial_world_rot); a change that is None is no change
calculate_world_from_changes(N, L, loc_change, rot_change, initial_loc, initial_rot) ==
    LET loc_changes == IF loc_change.none
                       THEN [n \in 1..N |-> [i \in 1..L |-> Zero3]]
                       ELSE loc_change.data
        rot_changes == IF rot_change.none
                       THEN [n \in 1..N |-> [i \in 1..L |-> I3]]
                       ELSE rot_change.data
        clip(n) == AccumulateClip(loc_changes[n], rot_changes[n], 1,
                                  initial_loc[n], initial_rot[n],
                                  [loc |-> <<>>, rot |-> <<>>])
    IN  WorldResult([n \in 1..N |-> clip(n).loc], [n \in 1..N |-> clip(n).rot])

\* the rotation changes not passed on
_calculate_world_from_changes_no_rot(abs, world_loc_change_batch, world_rot_change_batch) ==
    calculate_world_from_changes(abs.N, abs.L,
        world_loc_change_batch, None,
        world_locations.data, world_rotations.data)

_calculate_world_from_changes(abs, world_loc_change_batch, world_rot_change_batch) ==
    calculate_world_from_changes(abs.N, abs.L,
        world_loc_change_batch, world_rot_change_batch,
        world_locations.data, world_rotations.data)

\* the absolute inputs accumulated as if they were changes
_calculate_world_from_loc_rot_accumulated(abs, world_loc_inputs, world_rot_inputs) ==
    calculate_world_from_changes(abs.N, abs.L, world_loc_inputs, world_rot_inputs,
        world_locations.data, world_rotations.data)

\* one None test for both inputs: a missing location drops the rotation too
_calculate_world_from_loc_rot_one_test(abs, world_loc_inputs, world_rot_inputs) ==
    WorldResult(
        IF world_loc_inputs.none
        THEN [n \in 1..abs.N |-> [i \in 1..abs.L |-> Zero3]]
        ELSE world_loc_inputs.data,
        IF world_loc_inputs.none \/ world_rot_inputs.none
        THEN [n \in 1..abs.N |-> [i \in 1..abs.L |-> I3]]
        ELSE world_rot_inputs.data)

_calculate_world_from_loc_rot(abs, world_loc_inputs, world_rot_inputs) ==
    WorldResult(
        IF world_loc_inputs.none
        THEN [n \in 1..abs.N |-> [i \in 1..abs.L |-> Zero3]]
        ELSE world_loc_inputs.data,
        IF world_rot_inputs.none
        THEN [n \in 1..abs.N |-> [i \in 1..abs.L |-> I3]]
        ELSE world_rot_inputs.data)

\* self.__calculate_world(absolute_loc, ...): the bound strategy is called
CallCalculateWorld(bound, abs, wl, wr) ==
    CASE bound = "_calculate_world_from_changes" ->
            _calculate_world_from_changes(abs, wl, wr)
      [] bound = "_calculate_world_from_loc_rot" ->
            _calculate_world_from_loc_rot(abs, wl, wr)

\* P3dPoseProjection.forward(absolute_loc[:, i], world_loc[:, i],
\* world_rot[:, i]): each joint placed in the scene, world_rotation x
\* local_absolute_location + world_location
pose_projection_forward(loc, world_loc, world_rot) ==
    [n \in DOMAIN loc |-> [b \in Bones |->
        VecAdd(MatVec(world_rot[n], loc[n][b]), world_loc[n])]]

-----------------------------------------------------------------------------
(* ProjectionModule.project_pose.                                          *)

NoRet ==
    [op |-> "idle", error |-> "", steps |-> <<>>, calls |-> <<>>,
     pose_inputs |-> <<>>, world_loc_inputs |-> None, world_rot_inputs |-> None,
     abs_path |-> "", world_path |-> "", batch_size |-> 0, clip_length |-> 0,
     projections |-> <<>>, absolute_loc |-> <<>>, absolute_rot |-> None,
     world_loc |-> <<>>, world_rot |-> <<>>, meta |-> <<>>,
     projection_calls |-> <<>>, out |-> <<>>]

Ret(fields) == fields @@ NoRet

\* lines 98-106: the error the shape check raises, "" when it passes
ShapeCheck(mt, inp) ==
    IF mt = "pose_changes"
    THEN IF inp.isTuple THEN "AttributeError"
         ELSE IF inp.ndim < 5 THEN "RuntimeError" ELSE ""
    ELSE IF mt = "absolute_loc"
    THEN IF inp.isTuple THEN "AttributeError"
         ELSE IF inp.ndim < 4 THEN "RuntimeError" ELSE ""
    ELSE IF mt = "absolute_loc_rot" /\ ~inp.isTuple THEN "RuntimeError"
    ELSE ""

\* a projection object built for the frame, from the pedestrian at its index
PoseProjectionPerFrame(i) ==
    Some([pedestrian |-> pedestrians.data[((i - 1) % Len(pedestrians.data)) + 1]])

\* line 116: the object whose forward projects frame i
UsedPoseProjection(i) == pose_projection

\* lines 115-116: the projection object used, frame by frame
ProjectionCalls(abs) == [i \in 1..abs.L |-> UsedPoseProjection(i)]

\* lines 112-120: one projection per frame of absolute_loc
Projections(abs, world) ==
    Stack([i \in 1..abs.L |->
              pose_projection_forward(Slice(abs.loc, abs.N, i),
                                      Slice(world.loc, abs.N, i),
                                      Slice(world.rot, abs.N, i))],
          abs.N, abs.L)

project_pose(inp, wl, wr) ==
    LET call == [op |-> "project_pose", pose_inputs |-> inp,
                 world_loc_inputs |-> wl, world_rot_inputs |-> wr]
        checked == ShapeCheck(movements_output_type, inp)
        abs == CallCalculateAbs(calculate_abs, inp)
        world == CallCalculateWorld(calculate_world, abs, wl, wr)
    IN  IF checked # "" THEN Ret([error |-> checked] @@ call)
        ELSE IF abs.error # ""
        THEN Ret([error |-> abs.error, steps |-> <<"calculate_abs">>,
                  calls |-> abs.calls, abs_path |-> calculate_abs] @@ call)
        ELSE Ret([steps |-> <<"calculate_abs", "calculate_world", "projection">>,
                  calls |-> abs.calls, abs_path |-> calculate_abs,
                  world_path |-> calculate_world,
                  batch_size |-> abs.N, clip_length |-> abs.L,
                  projections |-> Projections(abs, world),
                  projection_calls |-> ProjectionCalls(abs),
                  absolute_loc |-> abs.loc, absolute_rot |-> abs.rot,
                  world_loc |-> world.loc, world_rot |-> world.rot] @@ call)

-----------------------------------------------------------------------------
(* ProjectionModule.on_batch_start.  meta maps each key to the list of     *)
(* its values, one per clip of the batch.                                  *)

ReferencePoseOf(meta, idx) ==
    IF "reference_pose" \in DOMAIN meta THEN meta["reference_pose"][idx] ELSE "None"

\* lines 65-70: the pedestrians of the batch, or the error raised on the way
CreatePedestrians(batch_size, meta) ==
    IF "age" \notin DOMAIN meta \/ "gender" \notin DOMAIN meta
    THEN [error |-> "KeyError", list |-> <<>>]
    ELSE LET peds == [idx \in 1..batch_size |->
                         ControlledPedestrian(meta["age"][idx], meta["gender"][idx],
                                              ReferencePoseOf(meta, idx))]
         IN  IF \E idx \in 1..batch_size : peds[idx].error # ""
             THEN [error |-> "MissingMetadataError", list |-> <<>>]
             ELSE [error |-> "", list |-> peds]

\* lines 72-73: P3dPoseProjection(device=..., pedestrian=self.__pedestrians[0]),
\* the camera set up for that pedestrian
P3dPoseProjection(pedestrian) == Some([pedestrian |-> pedestrian])

\* lines 76-79: the world transform every clip of the batch starts from
InitialWorldLocations(batch_size) == [n \in 1..batch_size |-> Zero3]

\* torch.ones in place of torch.eye
InitialWorldRotationsOnes(batch_size) ==
    [n \in 1..batch_size |-> <<<<1, 1, 1>>, <<1, 1, 1>>, <<1, 1, 1>>>>]

InitialWorldRotations(batch_size) == [n \in 1..batch_size |-> I3]

-----------------------------------------------------------------------------
(* MixedDataset: the metadata part of __init__ and __getitem__.            *)

\* lines 56-63: the keys of the subsets' first items, or None
MetaTemplate(sets, skip_metadata) ==
    IF skip_metadata THEN None
    ELSE Some(UNION {sets[d] : d \in DOMAIN sets})

\* lines 79-87: the metadata of the item, brought to the template
CommonMeta(template, meta) ==
    IF template.none THEN [k \in {} |-> ""]
    ELSE [k \in template.data |-> IF k \in DOMAIN meta THEN meta[k] ELSE "nan"]

NoItem == [loaded |-> FALSE, from |-> "", source |-> <<>>, meta |-> <<>>]

\* the batch of one clip the loader collates from the item
Collate(it) == [k \in DOMAIN it.meta |-> <<it.meta[k]>>]

-----------------------------------------------------------------------------
(* Inputs.  Each specification draws the module's configuration, the       *)
(* batches and the arguments of project_pose from one family:              *)
(*   "shape": every configuration, pose inputs of every rank and kind;     *)
(*   "pose" : rotation inputs that vary per clip, frame and bone;          *)
(*   "world": world inputs that vary per clip and frame;                   *)
(*   "meta" : datasets and batches whose metadata lacks keys.              *)

\* per-bone rotations of one frame of one clip
ChangeOptions ==
    {[b \in Bones |-> I3],
     [b \in Bones |-> IF b = 2 THEN Rz ELSE I3],
     [b \in Bones |-> IF b = 1 THEN I3 ELSE Rx]}

\* world change (or world value) of one frame of one clip
WorldOptions ==
    {[loc |-> Zero3, rot |-> I3], [loc |-> Ex, rot |-> Rz], [loc |-> Ey, rot |-> Rx]}

\* batches (N, L) over the options S: one clip takes any sequence of
\* options, the other clips repeat the option d
BatchData(S, d, N, L) ==
    {[n \in 1..N |-> IF n = k THEN c ELSE [i \in 1..L |-> d]] :
        k \in 1..N, c \in [1..L -> S]}

DefaultLocations(N, L) ==
    [n \in 1..N |-> [i \in 1..L |-> [b \in Bones |-> VecScale(b - 1, Ex)]]]

DefaultRotations(N, L) ==
    [n \in 1..N |-> [i \in 1..L |-> [b \in Bones |-> I3]]]

\* a tensor of the rank, with data where a reader of that rank finds it
TensorOfRank(ndim, N, L) ==
    Tensor(ndim, N, L,
           IF ndim = 5 THEN DefaultRotations(N, L)
           ELSE IF ndim = 4 THEN DefaultLocations(N, L) ELSE <<>>)

\* the well-formed pose input of a movements output type
DefaultPose(mt, N, L) ==
    IF mt = "absolute_loc" THEN TensorOfRank(4, N, L)
    ELSE IF mt = "absolute_loc_rot"
    THEN TupleOf(TensorOfRank(4, N, L), TensorOfRank(5, N, L))
    ELSE TensorOfRank(5, N, L)

\* what a family draws for one call of project_pose: the kind, rank and
\* clip length of the pose input, its rotations (or the default data of the
\* rank), and the world inputs
Draw(kind, ndim, L, data, wl, wr) ==
    [kind |-> kind, ndim |-> ndim, L |-> L, data |-> data,
     world_loc |-> wl, world_rot |-> wr]

ShapeCalls ==
    {Draw(kind, ndim, L, <<>>, None, None) :
        kind \in {"tensor"}, ndim \in 3..6, L \in 0..MaxClip}
    \cup {Draw("tuple", 0, L, <<>>, None, None) : L \in 0..MaxClip}

PoseCalls(N) ==
    UNION {{Draw("rotations", 5, L, data, None, None) :
               data \in BatchData(ChangeOptions, [b \in Bones |-> IF b = 1 THEN I3 ELSE Rx], N, L)} :
           L \in 0..MaxClip}

WorldData(N) ==
    UNION {BatchData(WorldOptions, [loc |-> Ex, rot |-> Rz], N, L) : L \in 0..MaxClip}

LocOf(data) == [n \in DOMAIN data |-> [i \in DOMAIN data[n] |-> data[n][i].loc]]

RotOf(data) == [n \in DOMAIN data |-> [i \in DOMAIN data[n] |-> data[n][i].rot]]

WorldCalls(N) ==
    UNION {{Draw("default", 0, Len(data[1]), <<>>, wl, wr) :
               wl \in {None, Some(LocOf(data))}, wr \in {None, Some(RotOf(data))}} :
           data \in WorldData(N)}

\* the pose input drawn, for a module of the movements output type
PoseInput(draw, mt, N) ==
    CASE draw.kind = "tensor" -> TensorOfRank(draw.ndim, N, draw.L)
      [] draw.kind = "tuple" ->
            TupleOf(TensorOfRank(4, N, draw.L), TensorOfRank(5, N, draw.L))
      [] draw.kind = "rotations" -> Tensor(5, N, draw.L, draw.data)
      [] draw.kind = "default" -> DefaultPose(mt, N, draw.L)

\* the batches' metadata, one age and one gender per clip: one clip is of
\* any age and gender, the other clips are adult and female
FullMetas ==
    UNION {{[age |-> [n \in 1..N |-> IF n = k THEN a ELSE "adult"],
             gender |-> [n \in 1..N |-> IF n = k THEN g ELSE "female"]] :
               k \in 1..N, a \in Ages, g \in Genders} : N \in 1..MaxBatch}

PlainMetas ==
    {[age |-> [n \in 1..N |-> "adult"], gender |-> [n \in 1..N |-> "female"]] :
        N \in 1..MaxBatch}

\* batches whose metadata lacks a key, or names a reference pose
KeyedMetas ==
    {[k \in K |-> <<(CASE k = "age" -> "child" [] k = "gender" -> "male"
                       [] k = "reference_pose" -> "pose_1")>>] :
        K \in SUBSET {"age", "gender", "reference_pose"}}

MetasOf(fam) ==
    CASE fam = "shape" -> PlainMetas
      [] fam = "pose" -> FullMetas
      [] fam = "world" -> PlainMetas
      [] fam = "meta" -> KeyedMetas

ConfigsOf(fam) ==
    CASE fam = "shape" -> MovementsModelOutputType \X TrajectoryModelOutputType
      [] fam = "pose" -> {"pose_changes", "relative_rot"} \X {"changes"}
      [] fam = "world" -> {"pose_changes", "absolute_loc"} \X TrajectoryModelOutputType
      [] fam = "meta" -> {"pose_changes", "absolute_loc"} \X {"changes"}
      [] OTHER -> {<<"pose_changes", "changes">>}

CallsOf(fam, N) ==
    CASE fam = "shape" -> ShapeCalls
      [] fam = "pose" -> PoseCalls(N)
      [] fam = "world" -> WorldCalls(N)
      [] fam = "meta" -> {Draw("default", 0, 1, <<>>, None, None)}

\* the metadata keys of the two source datasets of a MixedDataset
DatasetsOf(fam) ==
    IF fam = "meta"
    THEN {<<{"age", "gender"}, K>> :
             K \in {{"age", "gender"}, {"age"}, {"gender"}, {"age", "gender", "reference_pose"}}}
    ELSE {<<{"age", "gender"}, {"age", "gender"}>>}

SkipMetadataOf(fam) == IF fam = "meta" THEN BOOLEAN ELSE {FALSE}

\* the metadata of an item of a source dataset with the keys K
SourceMetas(K) ==
    {[k \in K |-> CASE k = "age" -> a [] k = "gender" -> "female"
                    [] k = "reference_pose" -> "pose_1"] : a \in Ages}

-----------------------------------------------------------------------------
(* The state machine.                                                      *)

Init(fam) ==
    /\ \E c \in ConfigsOf(fam) :
        /\ movements_output_type = c[1]
        /\ trajectory_output_type = c[2]
        /\ calculate_abs = SelectCalculateAbs(c[1])
        /\ calculate_world = SelectCalculateWorld(c[2])
    /\ pedestrians = None
    /\ pose_projection = None
    /\ world_locations = None
    /\ world_rotations = None
    /\ ret = NoRet
    /\ \E sets \in DatasetsOf(fam), skip \in SkipMetadataOf(fam) :
        /\ datasets = sets
        /\ meta_template = MetaTemplate(sets, skip)
    /\ item = NoItem

Idle == ret.op = "idle"

\* a source dataset, or the MixedDataset over them, hands an item on; the
\* loader holds it until the batch it is collated into starts
GetItem ==
    /\ Idle
    /\ ~item.loaded
    /\ \E d \in DOMAIN datasets, mixed \in BOOLEAN :
        \E meta \in SourceMetas(datasets[d]) :
            item' = [loaded |-> TRUE,
                     from |-> IF mixed THEN "MixedDataset" ELSE "source",
                     source |-> meta,
                     meta |-> IF mixed THEN CommonMeta(meta_template, meta) ELSE meta]
    /\ UNCHANGED <<moduleVars, ret, datasets, meta_template>>

BatchSizeOf(meta) == IF DOMAIN meta = {} THEN 1 ELSE Len(meta[CHOOSE k \in DOMAIN meta : TRUE])

OnBatchStart(fam) ==
    /\ Idle
    /\ \E meta \in MetasOf(fam) \cup (IF item.loaded THEN {Collate(item)} ELSE {}) :
        LET batch_size == BatchSizeOf(meta)
            created == CreatePedestrians(batch_size, meta)
        IN  IF created.error # ""
            THEN /\ ret' = Ret([op |-> "on_batch_start", error |-> created.error,
                                meta |-> meta, batch_size |-> batch_size])
                 /\ UNCHANGED moduleVars
            ELSE /\ pedestrians' = Some(created.list)
                 /\ pose_projection' = P3dPoseProjection(created.list[1])
                 /\ world_locations' = Some(InitialWorldLocations(batch_size))
                 /\ world_rotations' = Some(InitialWorldRotations(batch_size))
                 /\ ret' = Ret([op |-> "on_batch_start", meta |-> meta,
                                batch_size |-> batch_size])
                 /\ UNCHANGED <<movements_output_type, trajectory_output_type,
                                calculate_abs, calculate_world>>
    /\ item' = NoItem
    /\ UNCHANGED <<datasets, meta_template>>

ProjectPose(fam) ==
    /\ Idle
    /\ ~item.loaded
    /\ LET N == IF pedestrians.none THEN 1 ELSE Len(pedestrians.data)
       IN  \E draw \in CallsOf(fam, N) :
               ret' = project_pose(PoseInput(draw, movements_output_type, N),
                                   draw.world_loc, draw.world_rot)
    /\ UNCHANGED <<moduleVars, dataVars>>

\* the caller takes what the handler returned or raised
Return ==
    /\ ~Idle
    /\ ret' = NoRet
    /\ UNCHANGED <<moduleVars, dataVars>>

Next(fam) == GetItem \/ OnBatchStart(fam) \/ ProjectPose(fam) \/ Return

Spec == Init("shape") /\ [][Next("shape")]_vars

SpecPose == Init("pose") /\ [][Next("pose")]_vars

SpecWorld == Init("world") /\ [][Next("world")]_vars

SpecMeta == Init("meta") /\ [][Next("meta")]_vars

-----------------------------------------------------------------------------
(* The projection transform: HipsNeckNormalize(CarlaHipsNeckExtractor()),  *)
(* applied by forward to the projected pose.  A coordinate v / sqrt(D) of  *)
(* the normalized pose is held exactly, as the reduced fraction            *)
(* sign(v) * v^2 / D; a zero hips-to-neck distance gives <<0, 0>> (NaN).   *)

RECURSIVE GCD(_, _)
GCD(a, b) == IF b = 0 THEN a ELSE GCD(b, a % b)

Abs(v) == IF v < 0 THEN -v ELSE v

\* v / sqrt(D)
OverRoot(v, D) ==
    IF D = 0 THEN <<0, 0>>
    ELSE LET num == v * Abs(v)
             g == GCD(Abs(num), D)
         IN  <<num \div g, D \div g>>

\* the joints the extractor takes for the hips and the neck
HipsIndex == 1
NeckIndex == 2

\* the hips left where they are: the pose is only scaled
HipsNeckNormalizeNoShift(points) ==
    LET hips == points[HipsIndex]
        neck == points[NeckIndex]
        D == (neck[1] - hips[1]) * (neck[1] - hips[1])
             + (neck[2] - hips[2]) * (neck[2] - hips[2])
    IN  [b \in DOMAIN points |->
            <<OverRoot(points[b][1], D), OverRoot(points[b][2], D)>>]

\* HipsNeckNormalize.__call__ on one frame: (points - hips) / |neck - hips|
HipsNeckNormalize(points) ==
    LET hips == points[HipsIndex]
        neck == points[NeckIndex]
        D == (neck[1] - hips[1]) * (neck[1] - hips[1])
             + (neck[2] - hips[2]) * (neck[2] - hips[2])
    IN  [b \in DOMAIN points |->
            <<OverRoot(points[b][1] - hips[1], D),
              OverRoot(points[b][2] - hips[2], D)>>]

\* projected poses of one frame: the hips, the neck and one more joint lie
\* anywhere on a small grid, the other joints at the origin
Coords == {-1, 0, 2}

ProjectedPoses ==
    {[b \in Bones |-> IF b = HipsIndex THEN h ELSE IF b = NeckIndex THEN k
                      ELSE IF b = j THEN q ELSE <<0, 0>>] :
        h \in Coords \X Coords, k \in Coords \X Coords, q \in Coords \X Coords,
        j \in Bones \ {HipsIndex, NeckIndex}}

Offsets == {<<1, 0>>, <<-2, 3>>}
Factors == {2, 3}

\* every joint moved by the offset
Translated(points, o) ==
    [b \in DOMAIN points |-> <<points[b][1] + o[1], points[b][2] + o[2]>>]

\* every joint moved away from the hips by the factor
ScaledAboutHips(points, f) ==
    LET hips == points[HipsIndex]
    IN  [b \in DOMAIN points |->
            <<hips[1] + f * (points[b][1] - hips[1]),
              hips[2] + f * (points[b][2] - hips[2])>>]

\* line 222: self.projection_transform(projected_pose), for a projected pose
\* and for the same pose moved and scaled
ProjectionTransform ==
    /\ Idle
    /\ \E points \in ProjectedPoses, o \in Offsets, f \in Factors :
        ret' = Ret([op |-> "projection_transform",
                    out |-> [points |-> points, offset |-> o, factor |-> f,
                             normalized |-> HipsNeckNormalize(points),
                             of_translated |->
                                 HipsNeckNormalize(Translated(points, o)),
                             of_scaled |->
                                 HipsNeckNormalize(ScaledAboutHips(points, f))]])
    /\ UNCHANGED <<moduleVars, dataVars>>

NextTransform == ProjectionTransform \/ Return

SpecTransform == Init("transform") /\ [][NextTransform]_vars

-----------------------------------------------------------------------------
(* compare.main: the runs of a comparison, handed to a thread pool.  Of    *)
(* the configuration only the lengths of the value lists matter:           *)
(* compare_params is a sequence of lengths, one per parameter, and         *)
(* compare_model has, for a model, a sequence of lengths or no entry.      *)

MaxValues == 3

RECURSIVE SumOf(_)
SumOf(lens) == IF lens = <<>> THEN 0 ELSE Head(lens) + SumOf(Tail(lens))

RECURSIVE ProductOf(_)
ProductOf(lens) == IF lens = <<>> THEN 1 ELSE Head(lens) * ProductOf(Tail(lens))

\* compare_model.get(model, ...): the value lists of the model's variants
Variants(present, lens) == [present |-> present, lens |-> lens]

\* lines 72-73: the lengths of the parameter value lists, added up
compare_params_count(params) == SumOf(params)

\* lines 76-78: the lengths of the model variant lists, added up over the
\* models; a model without an entry counts as {'dummy': [None]}
RECURSIVE model_variants_count(_)
model_variants_count(models) ==
    IF models = <<>> THEN 0
    ELSE (IF Head(models).present THEN SumOf(Head(models).lens) ELSE 1)
         + model_variants_count(Tail(models))

\* line 81
tests_count(params, models) ==
    compare_params_count(params) * model_variants_count(models)

\* lines 86-105: one apply_async per element of itertools.product, for each
\* model; a model without an entry has no variant lists
RECURSIVE Dispatched(_, _)
Dispatched(params, models) ==
    IF models = <<>> THEN 0
    ELSE ProductOf(IF Head(models).present THEN Head(models).lens ELSE <<>>)
             * ProductOf(params)
         + Dispatched(params, Tail(models))

CompareParams ==
    {<<>>} \cup {<<a>> : a \in 0..MaxValues}
           \cup {<<a, b>> : a \in 0..MaxValues, b \in 0..MaxValues}

ModelVariants ==
    {Variants(FALSE, <<>>), Variants(TRUE, <<>>)}
    \cup {Variants(TRUE, <<a>>) : a \in 1..MaxValues}
    \cup {Variants(TRUE, <<a, b>>) : a \in 1..MaxValues, b \in 2..MaxValues}

CompareModels ==
    {<<m>> : m \in ModelVariants}
    \cup {<<m, k>> : m \in ModelVariants,
                     k \in {Variants(FALSE, <<>>), Variants(TRUE, <<2>>)}}

\* lines 37-105: main up to tp.close(): the bar is created with its total
\* and every run is in the pool
CompareMain ==
    /\ Idle
    /\ \E params \in CompareParams, models \in CompareModels :
        ret' = Ret([op |-> "compare_main",
                    out |-> [params |-> params, models |-> models,
                             total |-> tests_count(params, models),
                             dispatched |-> Dispatched(params, models),
                             pending |-> Dispatched(params, models),
                             n |-> 0]])
    /\ UNCHANGED <<moduleVars, dataVars>>

\* lines 18-34: a pool thread runs one variant and moves the bar on
Work ==
    /\ ret.op = "compare_main"
    /\ ret.out.pending > 0
    /\ ret' = [ret EXCEPT !.out.pending = @ - 1, !.out.n = @ + 1]
    /\ UNCHANGED <<moduleVars, dataVars>>

\* line 108: tp.join() returns when every run has completed
Join ==
    /\ ret.op = "compare_main"
    /\ ret.out.pending = 0
    /\ ret' = NoRet
    /\ UNCHANGED <<moduleVars, dataVars>>

NextCompare == CompareMain \/ Work \/ Join

SpecCompare == Init("compare") /\ [][NextCompare]_vars

-----------------------------------------------------------------------------
(* modeling.setup_flow: the guard against an endless epoch.  A limit is an *)
(* int or a float, as the Trainer's argument parser leaves it; its value   *)
(* is the fraction num / den.                                              *)

IntLimit(v) == [isFloat |-> FALSE, num |-> v, den |-> 1]
FloatLimit(num, den) == [isFloat |-> TRUE, num |-> num, den |-> den]

\* math.ceil(a / b), b > 0
Ceil(a, b) == IF a % b = 0 THEN a \div b ELSE (a \div b) + 1

\* the test of line 403 with < in place of <=
LimitTrainBatchesBelowOne(data_module_cls, limit, val_set_size, batch_size) ==
    IF data_module_cls = "Carla2D3DDataModule"
    THEN IF limit.num < 0 THEN FloatLimit(1, 1)
         ELSE IF limit.isFloat /\ limit.num < limit.den
         THEN IntLimit(Ceil(4 * val_set_size, batch_size))
         ELSE limit
    ELSE limit

\* lines 398-407: args.limit_train_batches after setup_flow
LimitTrainBatches(data_module_cls, limit, val_set_size, batch_size) ==
    IF data_module_cls = "Carla2D3DDataModule"
    THEN IF limit.num < 0 THEN FloatLimit(1, 1)
         ELSE IF limit.isFloat /\ limit.num <= limit.den
         THEN IntLimit(Ceil(4 * val_set_size, batch_size))
         ELSE limit
    ELSE limit

DataModules == {"Carla2D3DDataModule", "JAADCarlaRecDataModule", "YorkUOpenPoseDataModule"}

\* --limit_train_batches as given: -1, -1.0, -0.5, 0, 0.0, 0.5, 1, 1.0 (the
\* default), 2.5, 7
Limits ==
    {IntLimit(-1), FloatLimit(-1, 1), FloatLimit(-1, 2), IntLimit(0), FloatLimit(0, 1), FloatLimit(1, 2),
     IntLimit(1), FloatLimit(1, 1), FloatLimit(5, 2), IntLimit(7)}

ValSetSizes == {0, 1, 3, 8}
BatchSizes == {1, 2, 3}

\* setup_flow, lines 394-414
SetupFlow ==
    /\ Idle
    /\ \E dm \in DataModules, limit \in Limits, val \in ValSetSizes, bs \in BatchSizes :
        ret' = Ret([op |-> "setup_flow",
                    out |-> [data_module_cls |-> dm, given |-> limit,
                             val_set_size |-> val, batch_size |-> bs,
                             limit_train_batches |->
                                 LimitTrainBatches(dm, limit, val, bs)]])
    /\ UNCHANGED <<moduleVars, dataVars>>

NextFlow == SetupFlow \/ Return

SpecFlow == Init("flow") /\ [][NextFlow]_vars

-----------------------------------------------------------------------------
(* Carla2D3DIterableDataset.generate_batch.  Angles are counted in quarter *)
(* turns, so that euler_angles_to_matrix is exact; a change drawn for a    *)
(* bone is (rand * 2 - 1) * max_change per angle, a value from -max_change *)
(* up to, not including, max_change.  ret.out.drawn tells that line 175   *)
(* was reached.                                                            *)

Ry == <<<<0, 0, 1>>, <<0, 1, 0>>, <<-1, 0, 0>>>>

\* the rotation R turned a times
RotPow(R, a) ==
    CASE a % 4 = 0 -> I3
      [] a % 4 = 1 -> R
      [] a % 4 = 2 -> bmm(R, R)
      [] a % 4 = 3 -> bmm(R, bmm(R, R))

\* pytorch3d euler_angles_to_matrix(angles, "XYZ")
euler_angles_to_matrix(e) ==
    bmm(RotPow(Rx, e[1]), bmm(RotPow(Ry, e[2]), RotPow(Rz, e[3])))

\* numpy.random.choice with replace=True: a bone may be drawn twice
ChoiceWithReplacement(size) ==
    {S \in SUBSET Bones : (size = 0 /\ S = {}) \/ (1 <= Cardinality(S) /\ Cardinality(S) <= size)}

\* lines 150-151: numpy.random.choice(nodes_nums, size=..., replace=False);
\* no outcome (ValueError) when size exceeds the number of nodes
Choice(size) == {S \in SUBSET Bones : Cardinality(S) = size}

\* lines 152-153: angle triples a bone may draw
DrawnAngles(max_change) ==
    {<<0, 0, 0>>, <<-max_change, 0, IF max_change > 0 THEN max_change - 1 ELSE 0>>}

\* the changes of one frame of one clip: the bones chosen, and their angles
FrameDraws(size, max_change) ==
    UNION {[S -> DrawnAngles(max_change)] : S \in Choice(size)}

\* pose_changes[idx, i]: zeros but at the bones chosen
FrameAngles(draw) ==
    [b \in Bones |-> IF b \in DOMAIN draw THEN draw[b] ELSE <<0, 0, 0>>]

GenerateParams ==
    {[batch_size |-> N, clip_length |-> L, random_changes_each_frame |-> k,
      max_change |-> m, max_initial_world_rot_change |-> w[1],
      max_world_rot_change |-> w[2]] :
        N \in 1..MaxBatch, L \in 0..MaxClip, k \in 0..(NumBones + 1), m \in {0, 2},
        w \in {<<0, 0>>, <<1, 0>>, <<0, 1>>}}

\* lines 159-165: the yaw changes of a clip; the first frame draws within
\* max_initial_world_rot_change, the later frames (all the lowest draw)
\* within max_world_rot_change
YawDraws(par) ==
    {[i \in 1..par.clip_length |->
         <<0, 0, IF i = 1 THEN y0 ELSE -par.max_world_rot_change>>] :
        y0 \in {-par.max_initial_world_rot_change, 0}}

\* the draws of a batch: the first or the last frame of the last clip draws
\* anything, the other frames repeat one draw
BatchDraws(par) ==
    LET all == FrameDraws(par.random_changes_each_frame, par.max_change)
        rest == CHOOSE d \in all : \A b \in DOMAIN d : d[b] = <<0, 0, 0>>
    IN  IF par.clip_length = 0
        THEN {[n \in 1..par.batch_size |-> <<>>]}
        ELSE {[n \in 1..par.batch_size |-> [i \in 1..par.clip_length |->
                   IF n = fn /\ i = fi THEN d ELSE rest]] :
                 fn \in {par.batch_size}, fi \in {1, par.clip_length}, d \in all}

\* lines 136-183: the tensors are drawn, the projection module starts the
\* batch, and the call of line 179 names parameters forward does not have
GenerateBatch ==
    /\ Idle
    /\ \E par \in GenerateParams :
        LET N == par.batch_size
            L == par.clip_length
            call == [op |-> "generate_batch", batch_size |-> N, clip_length |-> L]
            failure ==
                CASE L > 0 /\ Choice(par.random_changes_each_frame) = {} -> "ValueError"
                  [] L = 0 /\ par.max_initial_world_rot_change > 0 -> "IndexError"
                  [] L = 0 /\ par.max_world_rot_change # 0 -> "RuntimeError"
                  [] OTHER -> ""
        IN  IF failure # ""
            THEN /\ ret' = Ret([error |-> failure,
                                out |-> [params |-> par, drawn |-> FALSE]] @@ call)
                 /\ UNCHANGED moduleVars
            ELSE \E draws \in BatchDraws(par), yaws \in YawDraws(par),
                    ag \in {<<"adult", "female">>, <<"child", "male">>} :
                    LET age == [n \in 1..N |-> IF n = 1 THEN ag[1] ELSE "adult"]
                        gender == [n \in 1..N |-> IF n = 1 THEN ag[2] ELSE "female"]
                        pose_changes ==
                            [n \in 1..N |-> [i \in 1..L |-> FrameAngles(draws[n][i])]]
                        created == CreatePedestrians(N, [age |-> age, gender |-> gender])
                    IN  /\ pedestrians' = Some(created.list)
                        /\ pose_projection' = P3dPoseProjection(created.list[1])
                        /\ world_locations' = Some(InitialWorldLocations(N))
                        /\ world_rotations' = Some(InitialWorldRotations(N))
                        /\ UNCHANGED <<movements_output_type, trajectory_output_type,
                                       calculate_abs, calculate_world>>
                        /\ ret' = Ret([error |-> "TypeError",
                               out |-> [params |-> par, drawn |-> TRUE,
                                   indices |-> [n \in 1..N |-> [i \in 1..L |->
                                                   DOMAIN draws[n][i]]],
                                   pose_changes |-> pose_changes,
                                   pose_changes_batch |->
                                       [n \in 1..N |-> [i \in 1..L |-> [b \in Bones |->
                                           euler_angles_to_matrix(pose_changes[n][i][b])]]],
                                   world_rot_change_batch |->
                                       [n \in 1..N |-> [i \in 1..L |->
                                           euler_angles_to_matrix(yaws[i])]],
                                   world_loc_change_batch |->
                                       [n \in 1..N |-> [i \in 1..L |-> Zero3]],
                                   age |-> age, gender |-> gender]] @@ call)
    /\ UNCHANGED dataVars

NextGenerate == GenerateBatch \/ Return

SpecGenerate == Init("generate") /\ [][NextGenerate]_vars

-----------------------------------------------------------------------------
(* utils/argparse.MinMaxAction, as the parser of a data module calls it   *)
(* for each option of the command line.  ret.out.namespace is the          *)
(* namespace being filled; parser.error prints the message and exits.      *)

MaxArgs == 2

\* the bounds test with the bounds themselves refused
InBoundsExclusive(action, values) ==
    /\ action.minimum.none \/ ~(values <= action.minimum.data)
    /\ action.maximum.none \/ ~(values >= action.maximum.data)

\* lines 11 and 14: neither test calls parser.error
InBounds(action, values) ==
    /\ ~(~action.minimum.none /\ values < action.minimum.data)
    /\ ~(~action.maximum.none /\ values > action.maximum.data)

\* carla2d3d_datamodule.py 52-81: the options parsed with MinMaxAction, and
\* three more that leave out a bound (lines 5-8: both default to None)
MinMaxActions ==
    {[dest |-> "max_change_in_deg", minimum |-> Some(0), maximum |-> Some(15)],
     [dest |-> "max_world_rot_change_in_deg", minimum |-> Some(0), maximum |-> Some(15)],
     [dest |-> "max_initial_world_rot_change_in_deg", minimum |-> Some(0),
      maximum |-> Some(180)],
     [dest |-> "only_minimum", minimum |-> Some(0), maximum |-> None],
     [dest |-> "only_maximum", minimum |-> None, maximum |-> Some(15)],
     [dest |-> "no_bounds", minimum |-> None, maximum |-> None]}

\* the defaults of the options
NamespaceDefaults ==
    [d \in {a.dest : a \in MinMaxActions} |-> IF d = "max_change_in_deg" THEN 5 ELSE 0]

\* values of type=int given on the command line
ArgValues == {-1, 0, 15, 16, 180, 181}

\* parse_args begins: the namespace holds the defaults
ParseArgs ==
    /\ Idle
    /\ ret' = Ret([op |-> "parse_args",
                   out |-> [namespace |-> NamespaceDefaults, n |-> 0,
                            action |-> <<>>, values |-> 0,
                            before |-> NamespaceDefaults]])
    /\ UNCHANGED <<moduleVars, dataVars>>

\* lines 10-18: MinMaxAction.__call__ for one more option
MinMaxCall ==
    /\ ret.op = "parse_args"
    /\ ret.error = ""
    /\ ret.out.n < MaxArgs
    /\ \E action \in MinMaxActions, values \in ArgValues :
        LET call == [action |-> action, values |-> values,
                     before |-> ret.out.namespace, n |-> ret.out.n + 1]
        IN  IF InBounds(action, values)
            THEN ret' = [ret EXCEPT !.out = call @@
                            [namespace |-> [ret.out.namespace EXCEPT
                                               ![action.dest] = values]]]
            ELSE ret' = [ret EXCEPT !.error = "SystemExit",
                                    !.out = call @@ [namespace |-> ret.out.namespace]]
    /\ UNCHANGED <<moduleVars, dataVars>>

NextArgs == ParseArgs \/ MinMaxCall \/ Return

SpecArgs == Init("args") /\ [][NextArgs]_vars

-----------------------------------------------------------------------------
(* Seq2SeqResidualB/C._decode_frame.  A row of the batch holds one         *)
(* rotation in the 6D form (the first two rows of its matrix); the decoder *)
(* is any function, its output is drawn.                                   *)

Sign(x) == IF x > 0 THEN 1 ELSE IF x < 0 THEN -1 ELSE 0

\* torch.nn.functional.normalize of a vector along one axis (or zero); the
\* vectors drawn below are such that Gram-Schmidt only meets those
normalize(v) == <<Sign(v[1]), Sign(v[2]), Sign(v[3])>>

VecDot(u, v) == u[1] * v[1] + u[2] * v[2] + u[3] * v[3]

cross(u, v) ==
    <<u[2] * v[3] - u[3] * v[2], u[3] * v[1] - u[1] * v[3], u[1] * v[2] - u[2] * v[1]>>

\* pytorch3d rotation_6d_to_matrix: Gram-Schmidt on the two halves
rotation_6d_to_matrix(d6) ==
    LET a1 == <<d6[1], d6[2], d6[3]>>
        a2 == <<d6[4], d6[5], d6[6]>>
        b1 == normalize(a1)
        b2 == normalize(VecAdd(a2, VecScale(-VecDot(b1, a2), b1)))
    IN  <<b1, b2, cross(b1, b2)>>

\* pytorch3d matrix_to_rotation_6d: the first two rows
matrix_to_rotation_6d(m) == <<m[1][1], m[1][2], m[1][3], m[2][1], m[2][2], m[2][3]>>

\* seq2seq_residual_b.py 38 and 44: the sum of two rows
Residual_B(a, b) == [c \in 1..6 |-> a[c] + b[c]]

\* seq2seq_residual_c.py 42-45 and 52-55: the product of two rows' rotations
Residual_C(a, b) ==
    matrix_to_rotation_6d(bmm(rotation_6d_to_matrix(a), rotation_6d_to_matrix(b)))

Residual(version, a, b) == IF version = "B" THEN Residual_B(a, b) ELSE Residual_C(a, b)

\* force_input read after input was rebound to residual_output
ForceInputOfResidual(input, residual_output, force_indices) ==
    [r \in force_indices |-> residual_output[r]]

\* B 40, C 47: force_input = input[force_indices], a copy, taken before
\* input is rebound
ForceInput(input, residual_output, force_indices) ==
    [r \in force_indices |-> input[r]]

\* B 37-46, C 39-57: (input, output) as returned
decode_frame(version, input, decoded, needs_forcing, force_indices, target_pose_changes) ==
    LET output == decoded
        residual_output == [r \in DOMAIN input |-> Residual(version, input[r], output[r])]
        force_input == ForceInput(input, residual_output, force_indices)
        forced == [r \in force_indices |->
                      Residual(version, force_input[r], target_pose_changes[r])]
    IN  [input |-> IF needs_forcing
                   THEN [r \in DOMAIN input |->
                            IF r \in force_indices THEN forced[r] ELSE residual_output[r]]
                   ELSE residual_output,
         output |-> output]

\* rows given as input: the identity, a quarter turn, and the identity
\* written without unit length
InputRows == {<<1, 0, 0, 0, 1, 0>>, <<0, 1, 0, -1, 0, 0>>, <<2, 0, 0, 1, 3, 0>>}

\* rows the decoder may put out
DecodedRows == {<<1, 0, 0, 0, 1, 0>>, <<0, 0, 1, 0, 1, 0>>, <<0, -3, 0, 2, 1, 0>>}

\* rows of the target pose changes
TargetRows == {<<1, 0, 0, 0, 0, 1>>, <<0, 1, 0, -1, 0, 0>>}

DecodeFrame ==
    /\ Idle
    /\ \E version \in {"B", "C"}, bs \in 1..MaxBatch, needs_forcing \in BOOLEAN :
       \E input \in [1..bs -> InputRows], decoded \in [1..bs -> DecodedRows],
          force_indices \in SUBSET (1..bs) :
       \E target_pose_changes \in [force_indices -> TargetRows] :
        LET result == decode_frame(version, input, decoded, needs_forcing,
                                   force_indices, target_pose_changes)
        IN  ret' = Ret([op |-> "_decode_frame", batch_size |-> bs,
                        out |-> [version |-> version, input |-> input,
                                 decoded |-> decoded,
                                 needs_forcing |-> needs_forcing,
                                 force_indices |-> force_indices,
                                 target_pose_changes |-> target_pose_changes,
                                 next_input |-> result.input,
                                 output |-> result.output]])
    /\ UNCHANGED <<moduleVars, dataVars>>

NextDecode == DecodeFrame \/ Return

SpecDecode == Init("decode") /\ [][NextDecode]_vars

-----------------------------------------------------------------------------
(* loss/cum_pose_changes.calculate_loss_cum_pose_changes: the two tensors  *)
(* handed to the criterion.                                                *)

\* lines 33-35: transpose(0, 1).reshape((clip_length, -1, 3, 3)); row
\* (n, b) of frame i becomes row (n - 1) * bones + b
FlattenClips(tensor, batch_size, clip_length, bones) ==
    [i \in 1..clip_length |-> [f \in 1..(batch_size * bones) |->
        tensor[((f - 1) \div bones) + 1][i][((f - 1) % bones) + 1]]]

\* the product taken with the new change on the left
RECURSIVE CumulativeNewFirst(_, _, _)
CumulativeNewFirst(flat, i, f) ==
    IF i = 0 THEN I3 ELSE bmm(flat[i][f], CumulativeNewFirst(flat, i - 1, f))

\* lines 28-31 and 37-47: prev after frame i, for flat row f
RECURSIVE Cumulative(_, _, _)
Cumulative(flat, i, f) ==
    IF i = 0 THEN I3 ELSE bmm(Cumulative(flat, i - 1, f), flat[i][f])

\* lines 50-53: stack, reshape((clip_length, batch_size, bones, 3, 3)) and
\* transpose(0, 1)
StackClips(flat, batch_size, clip_length, bones) ==
    [n \in 1..batch_size |-> [i \in 1..clip_length |-> [b \in 1..bones |->
        Cumulative(flat, i, (n - 1) * bones + b)]]]

cumulative_changes(tensor, batch_size, clip_length, bones) ==
    StackClips(FlattenClips(tensor, batch_size, clip_length, bones),
               batch_size, clip_length, bones)

\* pose changes: the identity everywhere but at two places of one clip, one
\* holding any of two rotations about different axes, the other a rotation
\* about x
PoseChangeTensors(N, L) ==
    {[n \in 1..N |-> [i \in 1..L |-> [b \in Bones |->
         IF <<n, i, b>> = <<c, p[1], p[2]>> THEN v
         ELSE IF <<n, i, b>> = <<c, q[1], q[2]>> THEN Rx ELSE I3]]] :
       c \in 1..N, p \in (1..L) \X Bones, q \in (1..L) \X Bones, v \in {Rz, Rx}}

\* targets['pose_changes']: no change at all, the predictions themselves,
\* or the predictions with the clips in reverse order
TargetTensors(pose_inputs, N) ==
    {[n \in 1..N |-> [i \in DOMAIN pose_inputs[n] |-> [b \in Bones |-> I3]]],
     pose_inputs,
     [n \in 1..N |-> pose_inputs[N + 1 - n]]}

CalculateLoss ==
    /\ Idle
    /\ \E N \in 1..MaxBatch, L \in 0..MaxClip :
        LET call == [op |-> "calculate_loss_cum_pose_changes",
                     batch_size |-> N, clip_length |-> L]
        IN  IF L = 0
            THEN \* torch.stack of an empty list
                 ret' = Ret([error |-> "RuntimeError"] @@ call)
            ELSE \E pose_inputs \in PoseChangeTensors(N, L) :
                 \E targets \in TargetTensors(pose_inputs, N) :
                    ret' = Ret([pose_inputs |-> pose_inputs,
                                out |-> [targets |-> targets,
                                    criterion_input |->
                                        cumulative_changes(pose_inputs, N, L, NumBones),
                                    criterion_target |->
                                        cumulative_changes(targets, N, L, NumBones)]]
                               @@ call)
    /\ UNCHANGED <<moduleVars, dataVars>>

NextLoss == CalculateLoss \/ Return

SpecLoss == Init("loss") /\ [][NextLoss]_vars

-----------------------------------------------------------------------------
(* Carla2D3DDataModule.prepare_data, and Carla2D3DDataset opened on a set  *)
(* it wrote.  The iterable dataset prepare_data imports (carla_dataset) is *)
(* taken to return batch_size clips per batch with the targets and the     *)
(* metadata of generate_batch's return statement.  ret.out.files are the   *)
(* hdf5 files in the subsets directory.                                    *)

SetNames == <<"val", "test">>

SetSizes == {-1, 0, 1, 3}

PrepareBatchSizes == {1, 2}

GeneratedTargetKeys == {"pose_changes", "world_loc_changes", "world_rot_changes"}

GeneratedMetaKeys == {"age", "gender"}

\* the clips of `batches` generated batches, in order; clip (j, idx) is the
\* idx-th of the j-th batch; one clip has any age and gender
GeneratedClips(batches, batch_size) ==
    {[c \in 1..(batches * batch_size) |->
        [id |-> <<((c - 1) \div batch_size) + 1, ((c - 1) % batch_size) + 1>>,
         age |-> IF c = free THEN a ELSE "adult",
         gender |-> IF c = free THEN g ELSE "female"]] :
       free \in {1, batches * batch_size}, a \in Ages, g \in Genders}

\* list(set(stacked_v)): the values, in one of the orders a set may give
UniqueOrders(values) ==
    {u \in UNION {[1..Cardinality(values) -> values]} :
        \A i, j \in DOMAIN u : u[i] = u[j] => i = j}

\* lines 149-151: mapping = {s: i for i, s in enumerate(unique)}, applied
\* to one value
LabelIndex(unique, s) == CHOOSE i \in DOMAIN unique : unique[i] = s

\* lines 134-152: the file written for one set
WrittenSet(clips, size, unique) ==
    [projection_2d |-> [c \in 1..size |-> clips[c].id],
     targets |-> [k \in GeneratedTargetKeys |-> [c \in 1..size |-> <<k, clips[c].id>>]],
     meta |-> [k \in GeneratedMetaKeys |->
                 [data |-> [c \in 1..size |-> LabelIndex(unique[k], clips[c][k])],
                  labels |-> unique[k]]]]

\* lines 145-149 for every key: the label orders the clips' values may get
LabelOrders(clips) ==
    LET ValuesOf(k) == {clips[c][k] : c \in DOMAIN clips}
        Orders == UNION {UniqueOrders(ValuesOf(k)) : k \in GeneratedMetaKeys}
    IN  {u \in [GeneratedMetaKeys -> Orders] :
            \A k \in GeneratedMetaKeys : u[k] \in UniqueOrders(ValuesOf(k))}

\* lines 123-152 for one set: None when the set is skipped
PreparedSets(size, batch_size) ==
    IF size <= 0 THEN {None}
    ELSE LET batches == Ceil(size, batch_size)
         IN  UNION {{Some([batches |-> batches, clips |-> clips,
                           file |-> WrittenSet(clips, size, unique)]) :
                        unique \in LabelOrders(clips)} :
                     clips \in GeneratedClips(batches, batch_size)}

PrepareData ==
    /\ Idle
    /\ \E needs_preparation \in BOOLEAN, batch_size \in PrepareBatchSizes,
          val_set_size \in SetSizes, test_set_size \in SetSizes :
        LET call == [op |-> "prepare_data", batch_size |-> batch_size]
            par == [needs_preparation |-> needs_preparation,
                    val_set_size |-> val_set_size, test_set_size |-> test_set_size]
        IN  IF ~needs_preparation
            THEN ret' = Ret([out |-> [params |-> par, sets |-> <<None, None>>,
                                      opened |-> 0]] @@ call)
            ELSE \E val \in PreparedSets(val_set_size, batch_size),
                    test \in PreparedSets(test_set_size, batch_size) :
                    ret' = Ret([out |-> [params |-> par, sets |-> <<val, test>>,
                                         opened |-> 0]] @@ call)
    /\ UNCHANGED <<moduleVars, dataVars>>

\* carla_2d3d_dataset.py 26-32: one dictionary per stored clip
DecodedMeta(file) ==
    [idx \in 1..Len(file.projection_2d) |->
        [k \in DOMAIN file.meta |-> file.meta[k].labels[file.meta[k].data[idx]]]]

\* lines 34-36: the keys every item is expected to have
IntegerMetaKeys == {"start_frame", "end_frame", "clip_id"}

\* carla_2d3d_dataset.py 18-39: Carla2D3DDataset(set_filepath)
OpenSet ==
    /\ ret.op = "prepare_data"
    /\ ret.error = ""
    /\ ret.out.opened = 0
    /\ \E s \in DOMAIN SetNames :
        LET set == ret.out.sets[s]
            meta == DecodedMeta(set.data.file)
            failure ==
                CASE set.none -> "FileNotFoundError"
                  [] \E idx \in DOMAIN meta : ~(IntegerMetaKeys \subseteq DOMAIN meta[idx])
                       -> "KeyError"
                  [] OTHER -> ""
        IN  ret' = [ret EXCEPT !.error = failure, !.out.opened = s,
                               !.meta = IF failure = "" THEN meta ELSE <<>>]
    /\ UNCHANGED <<moduleVars, dataVars>>

NextPrepare == PrepareData \/ OpenSet \/ Return

SpecPrepare == Init("prepare") /\ [][NextPrepare]_vars

-----------------------------------------------------------------------------
(* walker_control/pose_projection.PoseProjection: the camera.  An          *)
(* argument of ct.SpatialOrientation that the code leaves out is None here *)
(* (the library then takes its own default).  ret.out.camera is            *)
(* self.camera.                                                            *)

MaxUpdates == 2

\* ct.SpatialOrientation(...) as called with keyword arguments `given`
SpatialOrientation(given) ==
    [k \in {"elevation_m", "tilt_deg", "roll_deg", "heading_deg", "pos_x_m", "pos_y_m"} |->
        IF k \in DOMAIN given THEN Some(given[k]) ELSE None]

\* lines 164-170 and 192-195: the attributes of the default camera
CameraAttributes ==
    [image_size_x |-> 800, image_size_y |-> 600, fov |-> 90,
     lens_x_size_mm |-> 80, lens_y_size_mm |-> 80]

\* lines 207-215
calculate_distance_and_elevation(camera_location, pedestrian) ==
    [distance |-> camera_location.x - pedestrian.world_transform.x
                      + pedestrian.spawn_shift.x,
     elevation |-> camera_location.z - pedestrian.world_transform.z
                      + pedestrian.spawn_shift.z]

\* lines 223-239: the camera _setup_camera returns
setup_camera(camera_location, pedestrian) ==
    LET de == calculate_distance_and_elevation(camera_location, pedestrian)
    IN  [projection |-> [image_width_px |-> CameraAttributes.image_size_x,
                         image_height_px |-> CameraAttributes.image_size_y,
                         view_x_deg |-> CameraAttributes.fov,
                         sensor_width_mm |-> CameraAttributes.lens_x_size_mm,
                         sensor_height_mm |-> CameraAttributes.lens_y_size_mm],
         orientation |-> SpatialOrientation([pos_y_m |-> de.distance,
                                             elevation_m |-> de.elevation,
                                             heading_deg |-> 180,
                                             tilt_deg |-> 90])]

\* lines 241-255: self.camera after update_camera((x, y, z))
update_camera(camera, camera_position) ==
    [camera EXCEPT !.orientation =
        SpatialOrientation([pos_x_m |-> camera_position[2],
                            pos_y_m |-> camera_position[1],
                            elevation_m |-> camera_position[3]])]

CameraLocations == {[x |-> 3, z |-> 1], [x |-> 5, z |-> 2]}

ProjectedPedestrians ==
    {[world_transform |-> [x |-> wx, z |-> 0], spawn_shift |-> [x |-> 0, z |-> sz]] :
        wx \in {0, 1}, sz \in {0, 1}}

CameraPositions == {0, 1} \X {0, 2} \X {1, 3}

\* lines 180-195 and 217-239: PoseProjection(pedestrian, camera_rgb).  The
\* call of line 220 passes two arguments: the method of line 207 takes one
\* (TypeError); a subclass whose method takes both gets the camera built
PoseProjectionInit ==
    /\ Idle
    /\ \E cls \in {"PoseProjection", "subclass"}, location \in CameraLocations,
          pedestrian \in ProjectedPedestrians :
        LET call == [op |-> "PoseProjection"]
            par == [cls |-> cls, camera_location |-> location, pedestrian |-> pedestrian]
        IN  IF cls = "PoseProjection"
            THEN ret' = Ret([error |-> "TypeError",
                             out |-> [params |-> par, camera |-> None, updates |-> 0,
                                      before |-> None, camera_position |-> <<>>]] @@ call)
            ELSE ret' = Ret([out |-> [params |-> par,
                                      camera |-> Some(setup_camera(location, pedestrian)),
                                      updates |-> 0, before |-> None,
                                      camera_position |-> <<>>]] @@ call)
    /\ UNCHANGED <<moduleVars, dataVars>>

\* lines 241-255
UpdateCamera ==
    /\ ret.op = "PoseProjection"
    /\ ret.error = ""
    /\ ret.out.updates < MaxUpdates
    /\ \E camera_position \in CameraPositions :
        ret' = [ret EXCEPT
                   !.out.camera = Some(update_camera(ret.out.camera.data, camera_position)),
                   !.out.before = ret.out.camera,
                   !.out.camera_position = camera_position,
                   !.out.updates = @ + 1]
    /\ UNCHANGED <<moduleVars, dataVars>>

NextCamera == PoseProjectionInit \/ UpdateCamera \/ Return

SpecCamera == Init("camera") /\ [][NextCamera]_vars

-----------------------------------------------------------------------------
(* MixedDataset: the proportions and the targets.  A proportion is counted *)
(* in halves (-2 is -1, 1 is 0.5, 2 is 1.0), so that the divisions and     *)
(* int() of lines 22 and 33 are exact.  A tensor is its dtype, its shape   *)
(* and a token for its data; ret.out.items are the items of the            *)
(* ConcatDataset, in order.                                                *)

\* int(a / 2): truncation towards zero
IntOfHalves(a) == IF a >= 0 THEN a \div 2 ELSE -((-a) \div 2)

MinOf(S) == CHOOSE m \in S : \A x \in S : m <= x

\* line 22: lengths[i] / p, for p # 0
LengthOverProportion(length, p) ==
    CASE p = -2 -> -length
      [] p = 1 -> 2 * length
      [] p = 2 -> length

\* lines 21-23
possible_total(sources, proportions) ==
    MinOf({LengthOverProportion(sources[i].length, proportions[i]) :
              i \in {j \in DOMAIN sources : proportions[j] # 0}})

\* numpy.random.choice(range(length), size, replace=False): the items
\* chosen, in rising order
IndexChoices(length, size) ==
    {s \in UNION {[1..size -> 1..length]} : \A a, b \in 1..size : a < b => s[a] < s[b]}

\* lines 15-37: what each dataset contributes, [error, per dataset the item
\* numbers]; a dataset left out contributes <<>>
Subsets(sources, proportions) ==
    LET all == [i \in DOMAIN sources |-> [j \in 1..sources[i].length |-> j]]
    IN  IF proportions.none THEN {[error |-> "", chosen |-> all, used |-> DOMAIN sources]}
        ELSE LET p == proportions.data
             IN  IF \A i \in DOMAIN p : p[i] = 0 \/ p[i] = -2
                 THEN {[error |-> "",
                        chosen |-> [i \in DOMAIN sources |-> IF p[i] # 0 THEN all[i] ELSE <<>>],
                        used |-> {i \in DOMAIN sources : p[i] # 0}]}
                 ELSE LET total == possible_total(sources, p)
                          size == [i \in DOMAIN sources |-> IntOfHalves(total * p[i])]
                          used == {i \in DOMAIN sources : p[i] # 0}
                      IN  IF \E i \in used : size[i] < 0 \/ size[i] > sources[i].length
                          THEN {[error |-> "ValueError", chosen |-> <<>>, used |-> {}]}
                          ELSE {[error |-> "", chosen |-> c, used |-> used] :
                                  c \in {c \in [DOMAIN sources ->
                                                UNION {IndexChoices(sources[i].length, size[i])
                                                         : i \in DOMAIN sources} \cup {<<>>}] :
                                          \A i \in DOMAIN sources :
                                              IF i \in used
                                              THEN c[i] \in IndexChoices(sources[i].length, size[i])
                                              ELSE c[i] = <<>>}}

\* numpy.find_common_type of floating dtypes
CommonDtype(dtypes) == IF "float64" \in dtypes THEN "float64" ELSE "float32"

\* the template taken from the sources that are used only
TargetsTemplateOfUsed(sources, used) ==
    LET keys == UNION {DOMAIN sources[i].targets : i \in used}
        Having(k) == {i \in used : k \in DOMAIN sources[i].targets}
    IN  [error |-> "",
         template |-> [k \in keys |->
             [dtype |-> CommonDtype({sources[i].targets[k].dtype : i \in Having(k)}),
              shape |-> sources[MinOf(Having(k))].targets[k].shape]]]

\* lines 42-53: from the first item of every dataset given
TargetsTemplate(sources, used) ==
    LET keys == UNION {DOMAIN sources[i].targets : i \in DOMAIN sources}
        Having(k) == {i \in DOMAIN sources : k \in DOMAIN sources[i].targets}
    IN  IF \E k \in keys : \E i \in Having(k) :
               sources[i].targets[k].shape # sources[MinOf(Having(k))].targets[k].shape
        THEN [error |-> "AssertionError", template |-> <<>>]
        ELSE [error |-> "",
              template |-> [k \in keys |->
                  [dtype |-> CommonDtype({sources[i].targets[k].dtype : i \in Having(k)}),
                   shape |-> sources[MinOf(Having(k))].targets[k].shape]]]

\* the targets of item j of source dataset i
SourceTargets(sources, i, j) ==
    [k \in DOMAIN sources[i].targets |->
        [dtype |-> sources[i].targets[k].dtype, shape |-> sources[i].targets[k].shape,
         data |-> <<i, j>>]]

\* lines 68-77
CommonTargets(template, targets) ==
    [k \in DOMAIN template |->
        IF k \in DOMAIN targets THEN targets[k]
        ELSE [dtype |-> template[k].dtype, shape |-> template[k].shape, data |-> "nan"]]

\* the items of the ConcatDataset over the subsets
RECURSIVE ConcatItems(_, _)
ConcatItems(chosen, i) ==
    IF i > Len(chosen) THEN <<>>
    ELSE [c \in 1..Len(chosen[i]) |-> [dataset |-> i, index |-> chosen[i][c]]]
             \o ConcatItems(chosen, i + 1)

\* what the first item of a source dataset looks like
TargetKinds ==
    {[pose_changes |-> [dtype |-> "float32", shape |-> <<2>>]],
     [pose_changes |-> [dtype |-> "float32", shape |-> <<2>>],
      bboxes |-> [dtype |-> "float32", shape |-> <<2>>]],
     [bboxes |-> [dtype |-> "float64", shape |-> <<2>>]],
     [bboxes |-> [dtype |-> "float32", shape |-> <<3>>]]}

MixedSources ==
    {[length |-> n, targets |-> t, meta |-> m] :
        n \in {1, 2}, t \in TargetKinds, m \in {{"age", "gender"}}}

Proportions == {None} \cup {Some(p) : p \in [1..2 -> {-2, 0, 1, 2}]}

\* lines 8-63: MixedDataset(sources, skip_metadata, proportions)
MixedInit ==
    /\ Idle
    /\ \E sources \in [1..2 -> MixedSources], proportions \in Proportions,
          skip_metadata \in BOOLEAN :
       \E subsets \in Subsets(sources, proportions) :
        LET par == [datasets |-> sources, proportions |-> proportions,
                    skip_metadata |-> skip_metadata]
            targets == TargetsTemplate(sources, subsets.used)
            failure ==
                CASE subsets.error # "" -> subsets.error
                  [] subsets.used = {} -> "AssertionError"
                  [] targets.error # "" -> targets.error
                  [] ~skip_metadata /\ \E i \in subsets.used : subsets.chosen[i] = <<>>
                       -> "IndexError"
                  [] OTHER -> ""
        IN  ret' = Ret([op |-> "MixedDataset", error |-> failure,
                        out |-> IF failure # ""
                                THEN [params |-> par, got |-> FALSE]
                                ELSE [params |-> par, got |-> FALSE,
                                      items |-> ConcatItems(subsets.chosen, 1),
                                      targets_template |-> targets.template,
                                      meta_template |->
                                          MetaTemplate([i \in subsets.used |-> sources[i].meta],
                                                       skip_metadata),
                                      index |-> 0, source |-> <<>>, targets |-> <<>>,
                                      meta |-> <<>>]])
    /\ UNCHANGED <<moduleVars, dataVars>>

\* lines 65-89: __getitem__(index), index counted from 1
MixedGetItem ==
    /\ ret.op = "MixedDataset"
    /\ ret.error = ""
    /\ ~ret.out.got
    /\ \E index \in DOMAIN ret.out.items :
        LET it == ret.out.items[index]
            targets == SourceTargets(ret.out.params.datasets, it.dataset, it.index)
            meta == [k \in ret.out.params.datasets[it.dataset].meta |->
                        IF k = "age" THEN "adult" ELSE "female"]
        IN  ret' = [ret EXCEPT !.out.got = TRUE, !.out.index = index,
                               !.out.source = targets,
                               !.out.targets = CommonTargets(ret.out.targets_template, targets),
                               !.out.meta = CommonMeta(ret.out.meta_template, meta)]
    /\ UNCHANGED <<moduleVars, dataVars>>

NextMixed == MixedInit \/ MixedGetItem \/ Return

SpecMixed == Init("mixed") /\ [][NextMixed]_vars

-----------------------------------------------------------------------------
(* PoseFormer.forward and eval_slice.  Frames and windows are counted from *)
(* 0 as in the code, frame f of clip n being outputs[n][f + 1].  The       *)
(* transformer gives one frame per window and clip; its value (not 0) is   *)
(* drawn, 0 is the zero the outputs start with.                            *)

\* no shift of the outputs
OutputsShiftNone(receptive_frames) == 0

\* line 58
OutputsShift(receptive_frames) == receptive_frames \div 2

\* line 115: slice(start, stop)
eval_slice(clip_length, receptive_frames) ==
    [start |-> OutputsShift(receptive_frames),
     stop |-> clip_length - receptive_frames + OutputsShift(receptive_frames) + 1]

\* the frames outputs[:, a:b] selects of `frames` frames, for 0 <= a <= b
SliceFrames(a, b, frames) == {f \in 0..(frames - 1) : a <= f /\ f < b}

\* lines 122-125: outputs after the windows 0 .. i - 1
RECURSIVE AfterWindows(_, _, _, _, _)
AfterWindows(i, N, L, R, pose_former) ==
    IF i = 0 THEN [n \in 1..N |-> [f \in 1..L |-> 0]]
    ELSE LET before == AfterWindows(i - 1, N, L, R, pose_former)
             w == i - 1
             written == SliceFrames(w + OutputsShift(R), w + R + OutputsShift(R), L)
         IN  [n \in 1..N |-> [f \in 1..L |->
                 IF (f - 1) \in written THEN pose_former[n][w + 1] ELSE before[n][f]]]

\* lines 117-127
forward(N, L, R, pose_former) ==
    AfterWindows(IF L - R + 1 > 0 THEN L - R + 1 ELSE 0, N, L, R, pose_former)

PredictedValues == {1, 2}

PoseFormerForward ==
    /\ Idle
    /\ \E N \in 1..MaxBatch, L \in 1..MaxClip, R \in 1..(MaxClip + 1) :
       \E pose_former \in [1..N -> [1..(IF L - R + 1 > 0 THEN L - R + 1 ELSE 0)
                                        -> PredictedValues]] :
        ret' = Ret([op |-> "PoseFormer.forward", batch_size |-> N, clip_length |-> L,
                    out |-> [receptive_frames |-> R, pose_former |-> pose_former,
                             outputs |-> forward(N, L, R, pose_former),
                             eval_slice |-> eval_slice(L, R)]])
    /\ UNCHANGED <<moduleVars, dataVars>>

NextPoseFormer == PoseFormerForward \/ Return

SpecPoseFormer == Init("pose_former") /\ [][NextPoseFormer]_vars

-----------------------------------------------------------------------------
(* Properties.                                                             *)

\* project_pose returned normally
Projected == ret.op = "project_pose" /\ ret.error = ""

Clips == 1..ret.batch_size
Frames == 1..ret.clip_length

\* the world inputs of the call, a missing one read as no change
GivenLoc(n, i) ==
    IF ret.world_loc_inputs.none THEN Zero3 ELSE ret.world_loc_inputs.data[n][i]

GivenRot(n, i) ==
    IF ret.world_rot_inputs.none THEN I3 ELSE ret.world_rot_inputs.data[n][i]

RECURSIVE SumTo(_, _)
SumTo(n, t) == IF t = 0 THEN Zero3 ELSE VecAdd(SumTo(n, t - 1), GivenLoc(n, t))

RECURSIVE ProductTo(_, _)
ProductTo(n, t) == IF t = 0 THEN I3 ELSE bmm(ProductTo(n, t - 1), GivenRot(n, t))

\* the reference absolute pose of pedestrian n: its reference relative pose
\* composed along the parent chain
ReferenceAbsolute(n) ==
    LET t == current_pose_tensors(pedestrians.data[n])
    IN  [loc |-> [b \in Bones |-> AbsoluteLoc(t.loc, t.rot, b)],
         rot |-> [b \in Bones |-> AbsoluteRot(t.rot, b)]]

\* every rotation of clip n of the pose input is the identity
AllIdentity(n) ==
    \A i \in Frames : \A b \in Bones : ret.pose_inputs.data[n][i][b] = I3

(* C1: in pose-changes mode pose.forward is called once per frame, in      *)
(* increasing frame order; the first call receives the reference relative  *)
(* rotation, each later call the new relative rotation the call before it  *)
(* returned, and every call the same reference relative location.          *)
C1_ForwardOncePerFrameChained ==
    (Projected /\ movements_output_type = "pose_changes") =>
        /\ Len(ret.calls) = ret.pose_inputs.L
        /\ \A i \in 1..Len(ret.calls) :
            /\ ret.calls[i].name = "forward"
            /\ ret.calls[i].frame = i
            /\ ret.calls[i].prev_relative_loc =
                   [n \in Clips |-> current_pose_tensors(pedestrians.data[n]).loc]
            /\ ret.calls[i].prev_relative_rot =
                   IF i = 1
                   THEN [n \in Clips |-> current_pose_tensors(pedestrians.data[n]).rot]
                   ELSE ret.calls[i - 1].new_rot

C1_Witness ==
    /\ Projected /\ movements_output_type = "pose_changes"
    /\ Len(ret.calls) >= 3
    /\ ret.calls[2].prev_relative_rot # ret.calls[1].prev_relative_rot
    /\ ret.calls[3].prev_relative_rot # ret.calls[2].prev_relative_rot

(* C2: in 'changes' mode every clip starts from zero location and identity *)
(* rotation and each frame's world rotation is the previous frame's times  *)
(* the frame's rotation change, its location the previous one plus the     *)
(* location change; a single non-identity rotation change at frame k       *)
(* leaves the identity before k and that change from k on.                 *)
C2_WorldRecurrence ==
    (Projected /\ trajectory_output_type = "changes") =>
        \A n \in Clips :
            /\ \A t \in Frames :
                /\ ret.world_rot[n][t] =
                       bmm(IF t = 1 THEN I3 ELSE ret.world_rot[n][t - 1], GivenRot(n, t))
                /\ ret.world_loc[n][t] =
                       VecAdd(IF t = 1 THEN Zero3 ELSE ret.world_loc[n][t - 1],
                              GivenLoc(n, t))
            /\ \A k \in Frames :
                (GivenRot(n, k) # I3 /\ \A j \in Frames \ {k} : GivenRot(n, j) = I3) =>
                    \A t \in Frames :
                        ret.world_rot[n][t] = IF t < k THEN I3 ELSE GivenRot(n, k)

C2_Witness ==
    /\ Projected /\ trajectory_output_type = "changes"
    /\ ret.clip_length >= 3
    /\ \E n \in Clips :
        /\ GivenRot(n, 1) = I3 /\ GivenRot(n, 2) = Rz /\ GivenRot(n, 3) = I3
        /\ ret.world_rot[n][1] = I3 /\ ret.world_rot[n][3] = Rz
        /\ ret.world_loc[n][3] # Zero3

\* the world transform after the frames from..to of clip n, accumulated
\* from the location and rotation (loc, rot)
ContinueWorld(n, from, to, loc, rot) ==
    LET part == calculate_world_from_changes(1, to - from + 1,
                    Some(<<[i \in 1..(to - from + 1) |-> GivenLoc(n, from + i - 1)]>>),
                    Some(<<[i \in 1..(to - from + 1) |-> GivenRot(n, from + i - 1)]>>),
                    <<loc>>, <<rot>>)
    IN  [loc |-> part.loc[1][to - from + 1], rot |-> part.rot[1][to - from + 1]]

(* C3: accumulating all the changes of a clip in one pass ends in the same *)
(* world rotation and location as accumulating a first part of them and    *)
(* then continuing from the state reached with the remaining part.         *)
C3_AccumulationSplits ==
    (Projected /\ trajectory_output_type = "changes" /\ ret.clip_length >= 2) =>
        \A n \in Clips : \A k \in 1..(ret.clip_length - 1) :
            LET L == ret.clip_length
                first == ContinueWorld(n, 1, k, Zero3, I3)
                rest == ContinueWorld(n, k + 1, L, first.loc, first.rot)
            IN  /\ ret.world_rot[n][L] = rest.rot
                /\ ret.world_loc[n][L] = rest.loc

C3_Witness ==
    /\ Projected /\ trajectory_output_type = "changes" /\ ret.clip_length = 3
    /\ \E n \in Clips :
        /\ GivenRot(n, 1) = Rz /\ GivenRot(n, 2) = Rx /\ GivenRot(n, 3) = Rz
        /\ ret.world_rot[n][3] = bmm(Rz, bmm(Rx, Rz))
        /\ ret.world_rot[n][3] # bmm(Rx, bmm(Rz, Rz))

(* C4: in 'location+rotation' mode the world location and rotation         *)
(* returned are the supplied absolute values at every clip and frame: not  *)
(* accumulated over the frames, not combined with the stored initial state.*)
C4_LocRotPassesThrough ==
    (Projected /\ trajectory_output_type = "loc_rot") =>
        /\ ~ret.world_loc_inputs.none => ret.world_loc = ret.world_loc_inputs.data
        /\ ~ret.world_rot_inputs.none => ret.world_rot = ret.world_rot_inputs.data

C4_Witness ==
    /\ Projected /\ trajectory_output_type = "loc_rot"
    /\ ~ret.world_loc_inputs.none /\ ~ret.world_rot_inputs.none
    /\ ret.clip_length >= 2
    /\ \E n \in Clips :
        /\ ret.world_rot[n][2] = Rz /\ ProductTo(n, 2) # Rz
        /\ ret.world_loc[n][2] = Ex /\ SumTo(n, 2) # Ex

(* C5: a world location input that is not supplied gives the zero location,*)
(* a world rotation input that is not supplied the identity rotation, at   *)
(* every frame of every clip, and the supplied one is handled as when both *)
(* are supplied.                                                           *)
C5_MissingWorldInputIsNoChange ==
    Projected =>
        \A n \in Clips : \A t \in Frames :
            /\ ret.world_loc_inputs.none => ret.world_loc[n][t] = Zero3
            /\ ret.world_rot_inputs.none => ret.world_rot[n][t] = I3
            /\ ~ret.world_loc_inputs.none =>
                   ret.world_loc[n][t] = IF trajectory_output_type = "changes"
                                         THEN SumTo(n, t) ELSE GivenLoc(n, t)
            /\ ~ret.world_rot_inputs.none =>
                   ret.world_rot[n][t] = IF trajectory_output_type = "changes"
                                         THEN ProductTo(n, t) ELSE GivenRot(n, t)

C5_Witness ==
    /\ Projected /\ trajectory_output_type = "loc_rot"
    /\ ret.world_loc_inputs.none /\ ~ret.world_rot_inputs.none
    /\ ret.clip_length >= 1
    /\ \E n \in Clips : ret.world_rot[n][1] = Rx /\ ret.world_loc[n][1] = Zero3

(* C6: the movements output type given at construction selects the        *)
(* absolute-pose path (pose changes, absolute locations, absolute          *)
(* locations and rotations, relative rotations), the trajectory output     *)
(* type the world path (changes, location and rotation); the selection     *)
(* never changes afterwards and every project_pose call runs those paths.  *)
C6_PathsSelectedAtConstruction ==
    /\ [](/\ movements_output_type = "pose_changes" =>
              calculate_abs = "_calculate_abs_from_pose_changes"
          /\ movements_output_type = "absolute_loc" =>
              calculate_abs = "_calculate_abs_from_abs_loc_output"
          /\ movements_output_type = "absolute_loc_rot" =>
              calculate_abs = "_calculate_abs_from_abs_loc_rot_output"
          /\ movements_output_type = "relative_rot" =>
              calculate_abs = "_calculate_abs_from_relative_rot"
          /\ trajectory_output_type = "changes" =>
              calculate_world = "_calculate_world_from_changes"
          /\ trajectory_output_type = "loc_rot" =>
              calculate_world = "_calculate_world_from_loc_rot"
          /\ (ret.op = "project_pose" /\ ret.steps # <<>>) =>
              ret.abs_path = calculate_abs
          /\ Projected => ret.world_path = calculate_world)
    /\ [][/\ movements_output_type' = movements_output_type
          /\ trajectory_output_type' = trajectory_output_type
          /\ calculate_abs' = calculate_abs
          /\ calculate_world' = calculate_world]_vars

C6_Witness ==
    /\ Projected
    /\ movements_output_type = "absolute_loc_rot"
    /\ trajectory_output_type = "loc_rot"
    /\ ret.abs_path = "_calculate_abs_from_abs_loc_rot_output"
    /\ ret.world_path = "_calculate_world_from_loc_rot"
    /\ ret.clip_length >= 1
    /\ ~ret.absolute_rot.none

\* the pose input has the shape the movements output type is declared with
MatchesOutputType(mt, inp) ==
    CASE mt = "pose_changes" -> ~inp.isTuple /\ inp.ndim = 5
      [] mt = "absolute_loc" -> ~inp.isTuple /\ inp.ndim = 4
      [] mt = "absolute_loc_rot" ->
            inp.isTuple /\ inp.data.ndim = 4 /\ inp.second.ndim = 5
      [] mt = "relative_rot" -> ~inp.isTuple /\ inp.ndim = 5

(* C7: whatever the movements output type, a pose input whose shape does   *)
(* not match it makes project_pose fail at once: an error is raised and no *)
(* composition step has run before it.                                     *)
C7_ShapeMismatchFailsAtOnce ==
    (/\ ret.op = "project_pose"
     /\ ~pedestrians.none
     /\ ~MatchesOutputType(movements_output_type, ret.pose_inputs)) =>
        /\ ret.error # ""
        /\ ret.steps = <<>>
        /\ ret.calls = <<>>

(* C8: a pose input with a clip length of zero is rejected in every        *)
(* movements output mode, never projected to an empty result.              *)
C8_ZeroLengthClipRejected ==
    (/\ ret.op = "project_pose"
     /\ ~pedestrians.none
     /\ MatchesOutputType(movements_output_type, ret.pose_inputs)
     /\ ret.pose_inputs.L = 0) =>
        ret.error # ""

(* C9: a missing age or gender is never replaced by a placeholder on the   *)
(* way to the projection: an item whose source lacks the key is handed on  *)
(* without it, and on_batch_start fails for a batch that lacks either key; *)
(* the reference pose alone may be missing.                                *)
C9_MissingMetadataNotReplaced ==
    /\ item.loaded =>
           \A k \in {"age", "gender"} :
               k \notin DOMAIN item.source => k \notin DOMAIN item.meta
    /\ (/\ ret.op = "on_batch_start"
        /\ ("age" \notin DOMAIN ret.meta \/ "gender" \notin DOMAIN ret.meta)) =>
           ret.error # ""
    /\ (/\ ret.op = "on_batch_start"
        /\ DOMAIN ret.meta = {"age", "gender"}
        /\ \A n \in Clips : ret.meta["age"][n] \in Ages /\ ret.meta["gender"][n] \in Genders) =>
           ret.error = ""

\* the reference offsets of pedestrian n added up from the root to bone b
RECURSIVE OffsetsTo(_, _)
OffsetsTo(n, b) ==
    LET loc == current_pose_tensors(pedestrians.data[n]).loc
    IN  IF Parent(b) = 0 THEN loc[b] ELSE VecAdd(OffsetsTo(n, Parent(b)), loc[b])

RelativeRotAt(n, i, b) ==
    IF movements_output_type = "pose_changes"
    THEN ret.calls[i].new_rot[n][b]
    ELSE ret.pose_inputs.data[n][i][b]

(* C11: the absolute pose is a function of the relative pose and the       *)
(* parent map: for every non-root bone the absolute rotation is the        *)
(* parent's absolute rotation times the bone's relative rotation, the      *)
(* absolute location the parent's absolute location plus the parent's      *)
(* absolute rotation applied to the bone's relative location; the pose     *)
(* derived from the reference relative pose is the reference absolute pose.*)
C11_AbsoluteFromRelative ==
    (Projected /\ movements_output_type \in {"pose_changes", "relative_rot"}) =>
        \A n \in Clips : \A i \in Frames :
            LET ref == current_pose_tensors(pedestrians.data[n])
            IN  /\ \A b \in Bones \ {1} :
                    /\ ret.absolute_rot.data[n][i][b] =
                           bmm(ret.absolute_rot.data[n][i][Parent(b)],
                               RelativeRotAt(n, i, b))
                    /\ ret.absolute_loc[n][i][b] =
                           VecAdd(ret.absolute_loc[n][i][Parent(b)],
                                  MatVec(ret.absolute_rot.data[n][i][Parent(b)],
                                         ref.loc[b]))
                /\ (\A b \in Bones : RelativeRotAt(n, i, b) = ref.rot[b]) =>
                    /\ ret.absolute_loc[n][i] = ReferenceAbsolute(n).loc
                    /\ ret.absolute_rot.data[n][i] = ReferenceAbsolute(n).rot

C11_Witness ==
    /\ Projected /\ movements_output_type = "pose_changes"
    /\ ret.clip_length >= 2
    /\ \E n \in Clips :
        /\ \A b \in Bones : RelativeRotAt(n, 1, b) =
               current_pose_tensors(pedestrians.data[n]).rot[b]
        /\ RelativeRotAt(n, 2, 2) # current_pose_tensors(pedestrians.data[n]).rot[2]
        /\ ret.absolute_rot.data[n][2][3] #
               bmm(RelativeRotAt(n, 2, 3), ret.absolute_rot.data[n][2][2])
        /\ ret.absolute_loc[n][2][3] # ret.absolute_loc[n][1][3]

(* C12: between two on_batch_start calls there is one pose projection      *)
(* object: only a successful on_batch_start assigns it (built for the      *)
(* first pedestrian of the batch), and project_pose projects every frame   *)
(* of every clip with that object, unchanged.                              *)
C12_OneProjectionPerBatch ==
    /\ [](Projected =>
            /\ ~pose_projection.none
            /\ Len(ret.projection_calls) = ret.clip_length
            /\ \A i \in Frames : ret.projection_calls[i] = pose_projection)
    /\ [][pose_projection' # pose_projection =>
            /\ ret'.op = "on_batch_start" /\ ret'.error = ""
            /\ pose_projection' = Some([pedestrian |-> pedestrians'.data[1]])]_vars
    /\ [][(ret.op = "idle" /\ ret'.op = "on_batch_start" /\ ret'.error = "") =>
            pose_projection' = Some([pedestrian |-> pedestrians'.data[1]])]_vars

C12_Witness ==
    /\ Projected
    /\ ret.clip_length >= 2 /\ ret.batch_size >= 2
    /\ pedestrians.data[1] # pedestrians.data[2]
    /\ ret.projection_calls[1] = pose_projection
    /\ ret.projection_calls[2] = pose_projection
    /\ pose_projection.data.pedestrian = pedestrians.data[1]

(* C13: where a projection tensor handed on carries a third channel, the   *)
(* channel holds the detection confidence, 1 for every clip, frame and     *)
(* joint, never the depth the projection computed.                         *)
C13_ThirdChannelIsConfidence ==
    Projected =>
        \A n \in Clips : \A i \in Frames : \A b \in Bones :
            ret.projections[n][i][b][3] = 1

(* C14: on_batch_start creates one pedestrian per clip of the batch, from  *)
(* the age and gender at the clip's own index, and the pose of clip n is   *)
(* composed from the reference relative location and rotation of           *)
(* pedestrian n, not from those of another clip.                           *)
C14_PedestrianPerClip ==
    /\ (ret.op = "on_batch_start" /\ ret.error = "") =>
        /\ Len(pedestrians.data) = ret.batch_size
        /\ \A idx \in 1..ret.batch_size :
            /\ pedestrians.data[idx].age = ret.meta["age"][idx]
            /\ pedestrians.data[idx].gender = ret.meta["gender"][idx]
    /\ (Projected /\ movements_output_type = "pose_changes") =>
        /\ ret.batch_size = Len(pedestrians.data)
        /\ \A n \in Clips : \A i \in Frames :
            LET own == current_pose_tensors(pedestrians.data[n])
            IN  /\ ret.calls[i].prev_relative_loc[n] = own.loc
                /\ ret.absolute_loc[n][i] =
                       [b \in Bones |->
                           AbsoluteLoc(own.loc, ret.calls[i].new_rot[n], b)]
                /\ i = 1 =>
                    ret.calls[i].new_rot[n] =
                        [b \in Bones |->
                            bmm(own.rot[b], ret.pose_inputs.data[n][i][b])]

C14_Witness ==
    /\ Projected /\ movements_output_type = "pose_changes"
    /\ ret.batch_size = 2 /\ ret.clip_length >= 1
    /\ pedestrians.data[1].age # pedestrians.data[2].age
    /\ pedestrians.data[1].gender # pedestrians.data[2].gender
    /\ ret.pose_inputs.data[1] = ret.pose_inputs.data[2]
    /\ ret.absolute_loc[1][1] # ret.absolute_loc[2][1]
    /\ ret.absolute_rot.data[1][1] # ret.absolute_rot.data[2][1]

(* C15: normalization puts the hips at the origin and scales by the       *)
(* hips-to-neck distance: moving every joint of the input by one offset,   *)
(* or scaling the input about the hips by a positive factor, leaves the    *)
(* normalized pose as it was.                                              *)
C15_NormalizationInvariant ==
    ret.op = "projection_transform" =>
        /\ ret.out.normalized[NeckIndex] # <<<<0, 0>>, <<0, 0>>>> =>
            ret.out.normalized[HipsIndex] = <<<<0, 1>>, <<0, 1>>>>
        /\ ret.out.of_translated = ret.out.normalized
        /\ ret.out.of_scaled = ret.out.normalized

C15_Witness ==
    /\ ret.op = "projection_transform"
    /\ ret.out.points[HipsIndex] = <<-1, 2>>
    /\ ret.out.points[NeckIndex] = <<0, 0>>
    /\ ret.out.points[3] = <<2, -1>>
    /\ ret.out.offset = <<-2, 3>> /\ ret.out.factor = 3
    /\ ret.out.normalized[3] = <<<<9, 5>>, <<-9, 5>>>>
    /\ ret.out.of_scaled[3] = <<<<9, 5>>, <<-9, 5>>>>
    /\ ret.out.of_translated[3] = <<<<9, 5>>, <<-9, 5>>>>

(* C18: the total of the progress bar of compare.main is the number of     *)
(* runs handed to the thread pool, so the bar stands at its total when     *)
(* every run has completed.                                                *)
C18_BarTotalIsRunCount ==
    ret.op = "compare_main" =>
        /\ ret.out.total = ret.out.dispatched
        /\ ret.out.pending = 0 => ret.out.n = ret.out.total

(* C19: after setup_flow with the Carla2D3D data module a negative train   *)
(* batch limit has become 1.0, a float limit from 0 to 1.0 has become the  *)
(* batch count ceil(4 * val_set_size / batch_size), and any other limit is *)
(* as given; unless a negative limit was given, a limit that is a fraction *)
(* of the endless stream is never left.  With another data module the      *)
(* limit is as given.                                                      *)
C19_TrainBatchLimit ==
    ret.op = "setup_flow" =>
        LET given == ret.out.given
            after == ret.out.limit_train_batches
            negative == given.num < 0
            fraction == given.isFloat /\ 0 <= given.num /\ given.num <= given.den
        IN  IF ret.out.data_module_cls # "Carla2D3DDataModule" THEN after = given
            ELSE /\ negative => after = [isFloat |-> TRUE, num |-> 1, den |-> 1]
                 /\ fraction =>
                     /\ ~after.isFloat /\ after.den = 1
                     /\ after.num * ret.out.batch_size >= 4 * ret.out.val_set_size
                     /\ (after.num - 1) * ret.out.batch_size < 4 * ret.out.val_set_size
                 /\ (~negative /\ ~fraction) => after = given
                 /\ ~negative => ~(after.isFloat /\ after.num <= after.den)

C19_Witness ==
    /\ ret.op = "setup_flow"
    /\ ret.out.data_module_cls = "Carla2D3DDataModule"
    /\ ret.out.given = [isFloat |-> TRUE, num |-> 1, den |-> 1]
    /\ ret.out.val_set_size = 8 /\ ret.out.batch_size = 3
    /\ ret.out.limit_train_batches = [isFloat |-> FALSE, num |-> 11, den |-> 1]

(* C20: in every frame of every clip generate_batch builds, exactly        *)
(* random_changes_each_frame distinct bones are given a drawn rotation     *)
(* change, each angle of it within -max_change .. max_change; every other  *)
(* bone is given the identity; the world location change is zero.          *)
C20_RandomChangesPerFrame ==
    (ret.op = "generate_batch" /\ ret.out.drawn) =>
        \A n \in 1..ret.batch_size : \A i \in 1..ret.clip_length :
            LET chosen == ret.out.indices[n][i]
                m == ret.out.params.max_change
            IN  /\ chosen \subseteq Bones
                /\ Cardinality(chosen) = ret.out.params.random_changes_each_frame
                /\ \A b \in chosen : \A c \in 1..3 :
                    /\ -m <= ret.out.pose_changes[n][i][b][c]
                    /\ ret.out.pose_changes[n][i][b][c] <= m
                /\ \A b \in Bones \ chosen :
                    /\ ret.out.pose_changes[n][i][b] = <<0, 0, 0>>
                    /\ ret.out.pose_changes_batch[n][i][b] = I3
                /\ ret.out.world_loc_change_batch[n][i] = Zero3

C20_Witness ==
    /\ ret.op = "generate_batch" /\ ret.out.drawn
    /\ ret.batch_size = 2 /\ ret.clip_length = 2
    /\ ret.out.params.random_changes_each_frame = 2
    /\ ret.out.params.max_change = 2
    /\ ret.out.indices[2][2] = {1, 3}
    /\ ret.out.pose_changes_batch[2][2][1] # I3
    /\ ret.out.pose_changes_batch[2][2][2] = I3
    /\ ret.out.pose_changes_batch[2][2][3] # I3
    /\ ret.out.indices[2][1] # ret.out.indices[2][2]
    /\ ret.out.pose_changes[2][2][3] = <<-2, 0, 1>>

(* C21: MinMaxAction stores the value in the namespace exactly when        *)
(* minimum <= value <= maximum, an absent bound not being tested; for a    *)
(* value outside it reports a parser error and the namespace is as before. *)
C21_StoredIffWithinBounds ==
    (ret.op = "parse_args" /\ ret.out.n > 0) =>
        LET a == ret.out.action
            v == ret.out.values
            within == /\ (a.minimum.none \/ a.minimum.data <= v)
                      /\ (a.maximum.none \/ v <= a.maximum.data)
        IN  /\ within => /\ ret.error = ""
                         /\ ret.out.namespace = [ret.out.before EXCEPT ![a.dest] = v]
            /\ ~within => /\ ret.error = "SystemExit"
                          /\ ret.out.namespace = ret.out.before

C21_Witness ==
    /\ ret.op = "parse_args" /\ ret.out.n = 2
    /\ ret.error = "SystemExit"
    /\ ret.out.action.dest = "max_change_in_deg" /\ ret.out.values = 16
    /\ ret.out.namespace["max_change_in_deg"] = 15
    /\ ret.out.before["max_change_in_deg"] = 15

\* the rotation a 6D row stands for, times the rotation of another
RotationProduct(a, b) == bmm(rotation_6d_to_matrix(a), rotation_6d_to_matrix(b))

(* C22: _decode_frame returns the decoder's output as it is; the next      *)
(* input of a row is the previous input combined with the output (sum in   *)
(* B, rotation product in C), or, for a forced row when forcing is on,     *)
(* combined with the row's target pose change.                             *)
C22_PureOutputResidualInput ==
    ret.op = "_decode_frame" =>
        /\ ret.out.output = ret.out.decoded
        /\ \A r \in 1..ret.batch_size :
            LET with == IF ret.out.needs_forcing /\ r \in ret.out.force_indices
                        THEN ret.out.target_pose_changes[r]
                        ELSE ret.out.decoded[r]
            IN  IF ret.out.version = "B"
                THEN \A c \in 1..6 :
                        ret.out.next_input[r][c] = ret.out.input[r][c] + with[c]
                ELSE rotation_6d_to_matrix(ret.out.next_input[r])
                        = RotationProduct(ret.out.input[r], with)

C22_Witness ==
    /\ ret.op = "_decode_frame" /\ ret.batch_size = 2
    /\ ret.out.version = "C"
    /\ ret.out.needs_forcing /\ ret.out.force_indices = {2}
    /\ ret.out.decoded[2] = <<0, -3, 0, 2, 1, 0>>
    /\ ret.out.output[2] = <<0, -3, 0, 2, 1, 0>>
    /\ ret.out.target_pose_changes[2] # ret.out.decoded[2]
    /\ ret.out.next_input[2] # Residual_C(ret.out.input[2], ret.out.decoded[2])
    /\ ret.out.next_input[1] # ret.out.output[1]

\* change[n, 1, b] . change[n, 2, b] . ... . change[n, i, b], from the identity
RECURSIVE OrderedProduct(_, _, _, _)
OrderedProduct(change, n, i, b) ==
    IF i = 0 THEN I3 ELSE bmm(OrderedProduct(change, n, i - 1, b), change[n][i][b])

LossCompared == ret.op = "calculate_loss_cum_pose_changes" /\ ret.error = ""

(* C23: what the criterion compares holds at clip n, frame i, bone b the   *)
(* ordered product of that clip's and bone's changes up to frame i, for    *)
(* predictions and targets alike; it is the identity where all those       *)
(* changes are the identity.                                               *)
C23_CumulativeProductPerClipAndBone ==
    LossCompared =>
        \A n \in 1..ret.batch_size : \A i \in 1..ret.clip_length : \A b \in Bones :
            /\ ret.out.criterion_input[n][i][b]
                   = OrderedProduct(ret.pose_inputs, n, i, b)
            /\ ret.out.criterion_target[n][i][b]
                   = OrderedProduct(ret.out.targets, n, i, b)
            /\ (\A j \in 1..i : ret.pose_inputs[n][j][b] = I3)
                   => ret.out.criterion_input[n][i][b] = I3

C23_Witness ==
    /\ LossCompared /\ ret.batch_size = 2 /\ ret.clip_length = 3
    /\ ret.pose_inputs[2][1][3] = Rz /\ ret.pose_inputs[2][2][3] = Rx
    /\ ret.out.criterion_input[2][3][3] = bmm(Rz, Rx)
    /\ bmm(Rz, Rx) # bmm(Rx, Rz)
    /\ ret.out.criterion_input[1][3][3] = I3
    /\ ret.out.criterion_input[2][3][2] = I3
    /\ ret.out.criterion_target[1][3][3] = bmm(Rz, Rx)

(* C24: prepare_data does nothing when preparation is not needed;          *)
(* otherwise each of val and test with a positive size gets ceil(size /    *)
(* batch_size) batches generated and exactly `size` clips stored for the   *)
(* projection, every target and every metadata field, a size <= 0 being    *)
(* skipped; and the stored label indices decode back to each stored clip's *)
(* original metadata.                                                      *)
C24_PreparedSetsDecodeBack ==
    ret.op = "prepare_data" =>
        \A s \in DOMAIN SetNames :
            LET size == IF s = 1 THEN ret.out.params.val_set_size
                        ELSE ret.out.params.test_set_size
                set == ret.out.sets[s]
            IN  IF ~ret.out.params.needs_preparation \/ size <= 0
                THEN set.none
                ELSE /\ ~set.none
                     /\ set.data.batches * ret.batch_size >= size
                     /\ (set.data.batches - 1) * ret.batch_size < size
                     /\ Len(set.data.file.projection_2d) = size
                     /\ \A k \in GeneratedTargetKeys : Len(set.data.file.targets[k]) = size
                     /\ \A k \in GeneratedMetaKeys : Len(set.data.file.meta[k].data) = size
                     /\ ret.out.opened = s =>
                            /\ ret.error = ""
                            /\ \A c \in 1..size : \A k \in GeneratedMetaKeys :
                                   ret.meta[c][k] = set.data.clips[c][k]

(* C25: update_camera changes only the position of the camera, to the      *)
(* given x, y, z with x and y exchanged; the heading and the tilt set in   *)
(* _setup_camera and the projection intrinsics stay as they were.          *)
C25_UpdateCameraMovesOnly ==
    (ret.op = "PoseProjection" /\ ret.out.updates > 0) =>
        LET now == ret.out.camera.data
            was == ret.out.before.data
        IN  /\ now.orientation["pos_x_m"] = Some(ret.out.camera_position[2])
            /\ now.orientation["pos_y_m"] = Some(ret.out.camera_position[1])
            /\ now.orientation["elevation_m"] = Some(ret.out.camera_position[3])
            /\ now.projection = was.projection
            /\ now.orientation["heading_deg"] = Some(180)
            /\ now.orientation["tilt_deg"] = Some(90)

MixedBuilt == ret.op = "MixedDataset" /\ ret.error = ""

\* how often item j of dataset i is among the items of the MixedDataset
TimesIn(items, i, j) ==
    Cardinality({c \in DOMAIN items : items[c] = [dataset |-> i, index |-> j]})

(* C26: every item of a MixedDataset has the union of the target keys of   *)
(* the datasets' first items; a key the source item has is passed through, *)
(* a key it lacks is an all-NaN tensor of the common shape and dtype; a    *)
(* dataset of proportion 0 contributes no item, one of proportion -1 every *)
(* item of its own.                                                        *)
C26_CommonTargetsAndProportions ==
    MixedBuilt =>
        LET ds == ret.out.params.datasets
            keys == UNION {DOMAIN ds[i].targets : i \in DOMAIN ds}
        IN  /\ ret.out.got =>
                /\ DOMAIN ret.out.targets = keys
                /\ \A k \in keys :
                    IF k \in DOMAIN ret.out.source
                    THEN ret.out.targets[k] = ret.out.source[k]
                    ELSE /\ ret.out.targets[k].data = "nan"
                         /\ \A i \in DOMAIN ds : k \in DOMAIN ds[i].targets =>
                               /\ ret.out.targets[k].shape = ds[i].targets[k].shape
                               /\ ds[i].targets[k].dtype = "float64"
                                      => ret.out.targets[k].dtype = "float64"
            /\ ~ret.out.params.proportions.none =>
                \A i \in DOMAIN ds :
                    LET p == ret.out.params.proportions.data[i]
                    IN  /\ p = 0 => \A j \in 1..ds[i].length : TimesIn(ret.out.items, i, j) = 0
                        /\ p = -2 => \A j \in 1..ds[i].length : TimesIn(ret.out.items, i, j) = 1

C26_Witness ==
    /\ MixedBuilt /\ ret.out.got
    /\ ret.out.params.proportions = Some(<<0, -2>>)
    /\ ret.out.params.datasets[1].length = 2
    /\ ret.out.params.datasets[2].length = 2
    /\ DOMAIN ret.out.params.datasets[1].targets = {"pose_changes"}
    /\ DOMAIN ret.out.params.datasets[2].targets = {"bboxes"}
    /\ ret.out.params.datasets[2].targets["bboxes"].dtype = "float64"
    /\ Len(ret.out.items) = 2
    /\ ret.out.index = 2
    /\ ret.out.targets["pose_changes"].data = "nan"
    /\ ret.out.targets["bboxes"].data = <<2, 2>>

(* C27: after forward on a clip of L frames with receptive field R <= L,   *)
(* every frame f of eval_slice = [R div 2, L - R + R div 2] holds the      *)
(* prediction of the window that starts at frame f - R div 2; eval_slice   *)
(* has L - R + 1 frames; every frame before R div 2 is zero.               *)
C27_EvalSliceHoldsOwnWindow ==
    (ret.op = "PoseFormer.forward" /\ ret.out.receptive_frames <= ret.clip_length) =>
        LET L == ret.clip_length
            R == ret.out.receptive_frames
            half == R \div 2
            slice == SliceFrames(ret.out.eval_slice.start, ret.out.eval_slice.stop, L)
        IN  /\ slice = half..(L - R + half)
            /\ Cardinality(slice) = L - R + 1
            /\ \A n \in 1..ret.batch_size :
                /\ \A f \in slice :
                       ret.out.outputs[n][f + 1] = ret.out.pose_former[n][(f - half) + 1]
                /\ \A f \in 0..(half - 1) : ret.out.outputs[n][f + 1] = 0

C27_Witness ==
    /\ ret.op = "PoseFormer.forward"
    /\ ret.batch_size = 2 /\ ret.clip_length = 3 /\ ret.out.receptive_frames = 2
    /\ ret.out.pose_former[2] = <<1, 2>>
    /\ ret.out.outputs[2] = <<0, 1, 2>>
    /\ ret.out.eval_slice = [start |-> 1, stop |-> 3]

====
